---- MODULE Spec2Model ----
(***************************************************************************)
(* wily metrics store (backend/src/storage.rs): the WilyIndex session      *)
(* object, its row builder, the parquet file it appends to, and the        *)
(* per-revision row emission of analyze_revision.                          *)
(*                                                                         *)
(* Representation.  Option<T> is a sequence of length 0 or 1.  Strings the *)
(* code slices or concatenates (paths, function and class names) are       *)
(* sequences of one-character strings; other strings are TLA+ strings.     *)
(* An f64 is an exact fraction <<numerator, denominator>> in lowest terms. *)
(***************************************************************************)
EXTENDS Integers, Sequences, FiniteSets, TLC

VARIABLES disk, idx, active, calls, sessions, last, emitted, pc, inflight

vars == <<disk, idx, active, calls, sessions, last, emitted, pc, inflight>>

----------------------------------------------------------------------------
(* Bounds of the model *)

MaxCalls == 2
MaxSessions == 2
MaxRevCalls == 1
MaxReuseSessions == 3

----------------------------------------------------------------------------
(* Option, strings, f64 *)

None == <<>>
Some(v) == <<v>>

MaxOf(S) == CHOOSE x \in S : \A y \in S : y <= x
MinOf(S) == CHOOSE x \in S : \A y \in S : x <= y

EmptyStr == <<>>
Slash == "/"

starts_with(s, p) == Len(p) <= Len(s) /\ SubSeq(s, 1, Len(p)) = p

RECURSIVE trim_start_matches(_, _)
trim_start_matches(s, c) ==
    IF s # <<>> /\ Head(s) = c THEN trim_start_matches(Tail(s), c) ELSE s

\* str::rfind: index of the last occurrence of c, 0 for not found
rfind(s, c) ==
    LET I == {i \in 1..Len(s) : s[i] = c}
    IN  IF I = {} THEN 0 ELSE MaxOf(I)

\* str::split: the pieces between occurrences of c (one piece when c is absent)
RECURSIVE split(_, _)
split(s, c) ==
    LET I == {i \in 1..Len(s) : s[i] = c}
    IN  IF I = {} THEN <<s>>
        ELSE LET i == MinOf(I)
             IN  <<SubSeq(s, 1, i - 1)>> \o split(SubSeq(s, i + 1, Len(s)), c)

RECURSIVE Gcd(_, _)
Gcd(a, b) == IF b = 0 THEN a ELSE Gcd(b, a % b)

Abs(n) == IF n < 0 THEN -n ELSE n

\* the f64 nearest to num/den, kept exact
Frac(num, den) ==
    LET g == Gcd(Abs(num), Abs(den))
    IN  IF num = 0 THEN <<0, 1>> ELSE <<num \div g, den \div g>>

AsF64(n) == <<n, 1>>
FAdd(x, y) == Frac(x[1] * y[2] + y[1] * x[2], x[2] * y[2])
FDivInt(x, n) == Frac(x[1], x[2] * n)

RECURSIVE SumInts(_)
SumInts(s) == IF s = <<>> THEN 0 ELSE Head(s) + SumInts(Tail(s))

RECURSIVE SumF64(_)
SumF64(s) == IF s = <<>> THEN AsF64(0) ELSE FAdd(Head(s), SumF64(Tail(s)))

----------------------------------------------------------------------------
(* get_parent_paths *)

RECURSIVE parent_components(_, _)
parent_components(components, current) ==
    IF components = <<>> THEN <<>>
    ELSE LET component == Head(components)
         IN  IF component = EmptyStr
                THEN parent_components(Tail(components), current)
                ELSE LET next == IF current = EmptyStr THEN component
                                 ELSE current \o <<Slash>> \o component
                     IN  <<next>> \o parent_components(Tail(components), next)

get_parent_paths(file_path) ==
    LET last_slash == rfind(file_path, Slash)
    IN  IF last_slash = 0 THEN <<EmptyStr>>
        ELSE <<EmptyStr>>
             \o parent_components(split(SubSeq(file_path, 1, last_slash - 1), Slash),
                                  EmptyStr)

----------------------------------------------------------------------------
(* MetricsBuilder: one arrow column builder per field of metrics_schema *)

RawFields == {"loc", "sloc", "lloc", "comments", "multi", "blank", "single_comments"}
HalsteadIntFields == {"h1", "h2", "n1", "n2", "vocabulary", "length"}
HalsteadF64Fields == {"volume", "difficulty", "effort"}
HalsteadFields == HalsteadIntFields \cup HalsteadF64Fields

StrColumns == {"revision", "revision_author", "revision_message", "path_type", "rank"}
CharColumns == {"path", "classname"}
F64Columns == {"complexity", "mi"} \cup HalsteadF64Fields
BoolColumns == {"is_method"}
IntColumns == {"revision_date", "real_complexity", "lineno", "endline"}
                  \cup RawFields \cup HalsteadIntFields

ColumnNames == StrColumns \cup CharColumns \cup F64Columns \cup BoolColumns \cup IntColumns

NullableColumns == ColumnNames \ {"revision", "revision_date", "path", "path_type"}

\* the value an arrow builder stores in a null slot
NullSlot(c) ==
    IF c \in StrColumns THEN ""
    ELSE IF c \in CharColumns THEN EmptyStr
    ELSE IF c \in F64Columns THEN AsF64(0)
    ELSE IF c \in BoolColumns THEN FALSE
    ELSE 0

append_value(cols, c, v) == Append(cols[c], [valid |-> TRUE, value |-> v])
\* a builder that stores the default value as a valid slot
append_default(cols, c) == Append(cols[c], [valid |-> TRUE, value |-> NullSlot(c)])

append_null(cols, c) == Append(cols[c], [valid |-> FALSE, value |-> NullSlot(c)])
append_option(cols, c, o) ==
    IF o = None THEN append_null(cols, c) ELSE append_value(cols, c, o[1])

EmptyColumns == [c \in ColumnNames |-> <<>>]

MetricsBuilder_new == [cols |-> EmptyColumns, row_count |-> 0]

\* a: the arguments of add_aggregate_row; every metric is an Option
add_aggregate_row(b, a) ==
    [cols |-> [c \in ColumnNames |->
        IF c \in {"revision", "revision_date", "path", "path_type"}
            THEN append_value(b.cols, c, a[c])
        ELSE IF c \in {"real_complexity", "lineno", "endline", "is_method", "classname"}
            THEN append_null(b.cols, c)
        ELSE append_option(b.cols, c, a[c])],
     row_count |-> b.row_count + 1]

\* a: the arguments of add_function_row; complexity, lineno, endline, is_method
\* are plain values, classname and the Halstead fields are Options
add_function_row(b, a) ==
    [cols |-> [c \in ColumnNames |->
        IF c \in {"revision", "revision_date", "path"}
            THEN append_value(b.cols, c, a[c])
        ELSE IF c = "path_type" THEN append_value(b.cols, c, "function")
        ELSE IF c \in RawFields \cup {"real_complexity", "mi", "rank"}
            THEN append_null(b.cols, c)
        ELSE IF c = "complexity" THEN append_value(b.cols, c, AsF64(a.complexity))
        ELSE IF c \in {"lineno", "endline", "is_method"}
            THEN append_value(b.cols, c, a[c])
        ELSE append_option(b.cols, c, a[c])],
     row_count |-> b.row_count + 1]

\* a: the arguments of add_class_row
add_class_row(b, a) ==
    [cols |-> [c \in ColumnNames |->
        IF c \in {"revision", "revision_date", "path"}
            THEN append_value(b.cols, c, a[c])
        ELSE IF c = "path_type" THEN append_value(b.cols, c, "class")
        ELSE IF c \in {"revision_author", "revision_message"}
            THEN append_option(b.cols, c, a[c])
        ELSE IF c = "complexity" THEN append_value(b.cols, c, AsF64(a.complexity))
        ELSE IF c \in {"real_complexity", "lineno", "endline"}
            THEN append_value(b.cols, c, a[c])
        ELSE append_null(b.cols, c)],
     row_count |-> b.row_count + 1]

\* finish: the RecordBatch of the accumulated rows; every column builder is
\* reset by arrow's finish(), row_count is left as it is
finish(b) == [batch |-> b.cols, builder |-> [b EXCEPT !.cols = EmptyColumns]]

is_empty(b) == b.row_count = 0

num_rows(batch) == Len(batch["revision"])

----------------------------------------------------------------------------
(* MetricRow values returned by the *_tracked variants *)

AggregateMetricRow(a) ==
    [c \in ColumnNames |->
        IF c \in {"real_complexity", "lineno", "endline", "is_method", "classname"}
            THEN None
        ELSE a[c]]

FunctionMetricRow(a) ==
    [c \in ColumnNames |->
        IF c = "path_type" THEN "function"
        ELSE IF c \in RawFields \cup {"real_complexity", "mi", "rank"} THEN None
        ELSE IF c = "complexity" THEN Some(AsF64(a.complexity))
        ELSE IF c \in {"lineno", "endline", "is_method"} THEN Some(a[c])
        ELSE a[c]]

ClassMetricRow(a) ==
    [c \in ColumnNames |->
        IF c = "path_type" THEN "class"
        ELSE IF c \in {"revision", "revision_date", "revision_author",
                       "revision_message", "path"} THEN a[c]
        ELSE IF c = "complexity" THEN Some(AsF64(a.complexity))
        ELSE IF c \in {"real_complexity", "lineno", "endline"} THEN Some(a[c])
        ELSE None]

----------------------------------------------------------------------------
(* The parquet file at output_path *)

\* writes counts the File::create calls the file has seen (its modification stamp)
NoFile == [exists |-> FALSE, footer |-> FALSE, row_groups |-> <<>>, writes |-> 0]

Ok(v) == [ok |-> TRUE, value |-> v]
Err == [ok |-> FALSE, value |-> <<>>]

FileCreate(file) ==
    [exists |-> TRUE, footer |-> FALSE, row_groups |-> <<>>, writes |-> file.writes + 1]
WriterWrite(file, batch) == [file EXCEPT !.row_groups = Append(@, batch)]
WriterClose(file) == [file EXCEPT !.footer = TRUE]

write_parquet(file, batch) == WriterClose(WriterWrite(FileCreate(file), batch))

\* ParquetRecordBatchReaderBuilder::try_new + build + collect
read_batches(file) == IF file.footer THEN Ok(file.row_groups) ELSE Err

RECURSIVE concat_batches(_)
concat_batches(batches) ==
    IF batches = <<>> THEN EmptyColumns
    ELSE LET rest == concat_batches(Tail(batches))
         IN  [c \in ColumnNames |-> Head(batches)[c] \o rest[c]]

\* the batches append_parquet hands to write_parquet: Ok(batch) or Err
append_combined(file, new_batch) ==
    IF ~file.exists THEN Ok(new_batch)
    ELSE LET existing == read_batches(file)
         IN  IF existing.ok THEN Ok(concat_batches(Append(existing.value, new_batch)))
             ELSE Err

\* append_parquet: the file afterwards; an unreadable existing file is left alone
append_parquet(file, new_batch) ==
    LET combined == append_combined(file, new_batch)
    IN  IF combined.ok THEN write_parquet(file, combined.value) ELSE file

\* reading a slot without consulting the validity bitmap
cell_option_unchecked(cell) == Some(cell.value)

cell_option(cell) == IF cell.valid THEN Some(cell.value) ELSE None

row_from_batch(batch, i) ==
    [c \in ColumnNames |->
        IF c \in NullableColumns THEN cell_option(batch[c][i]) ELSE batch[c][i].value]

RECURSIVE rows_of_batches(_)
rows_of_batches(batches) ==
    IF batches = <<>> THEN <<>>
    ELSE [i \in 1..num_rows(Head(batches)) |-> row_from_batch(Head(batches), i)]
         \o rows_of_batches(Tail(batches))

load_rows_from_parquet(file) ==
    IF ~file.exists THEN Ok(<<>>)
    ELSE LET batches == read_batches(file)
         IN  IF batches.ok THEN Ok(rows_of_batches(batches.value)) ELSE Err

----------------------------------------------------------------------------
(* WilyIndex and IndexState *)

IndexState_new == [loaded_rows |-> <<>>, new_rows |-> <<>>, loaded |-> FALSE]

WilyIndex_new(operators) ==
    [builder |-> MetricsBuilder_new, state |-> IndexState_new, operators |-> operators]

all_rows(state) == state.loaded_rows \o state.new_rows

\* __enter__: the state afterwards (unchanged when the load fails)
enter_state(state, file) ==
    IF state.loaded THEN state
    ELSE LET loaded == load_rows_from_parquet(file)
         IN  IF loaded.ok
                THEN [state EXCEPT !.loaded_rows = loaded.value, !.loaded = TRUE]
                ELSE state

\* the prefix comparison described by the doc comment of __getitem__
path_matches_prefix(row, path) == starts_with(row.path, path)

path_matches(row, path) == row.path = path

\* Vec::sort_by on revision_date: a stable sort, oldest first
date_before_or_equal(a, b) == a.revision_date <= b.revision_date

RECURSIVE insert_stable(_, _)
insert_stable(sorted, row) ==
    IF sorted = <<>> THEN <<row>>
    ELSE LET n == Len(sorted)
         IN  IF date_before_or_equal(sorted[n], row) THEN Append(sorted, row)
             ELSE Append(insert_stable(SubSeq(sorted, 1, n - 1), row), sorted[n])

RECURSIVE sort_by_revision_date(_)
sort_by_revision_date(rows) ==
    IF rows = <<>> THEN <<>>
    ELSE LET n == Len(rows)
         IN  insert_stable(sort_by_revision_date(SubSeq(rows, 1, n - 1)), rows[n])

getitem(state, path) ==
    LET Matches(row) == path_matches(row, path)
    IN  sort_by_revision_date(SelectSeq(all_rows(state), Matches))

\* __iter__ of a session object constructed and entered on this file
open_and_iterate(file) == all_rows(enter_state(IndexState_new, file))

----------------------------------------------------------------------------
(* The working tree: what the metric analysers return for each source file.  *)
(* Each sample is the outcome of raw::analyze_source_raw,                     *)
(* cyclomatic::analyze_source_full, halstead::analyze_source_full and         *)
(* maintainability::analyze_source_mi on one source text.                     *)

NameF == <<"f">>
NameG == <<"g">>
NameM == <<"m">>
NameC == <<"C">>

RawOf(loc, lloc, sloc, comments, multi, blank, single_comments) ==
    [loc |-> loc, lloc |-> lloc, sloc |-> sloc, comments |-> comments,
     multi |-> multi, blank |-> blank, single_comments |-> single_comments]

HalsteadOf(h1, h2, n1, n2, volume, difficulty, effort) ==
    [h1 |-> h1, h2 |-> h2, n1 |-> n1, n2 |-> n2, vocabulary |-> h1 + h2,
     length |-> n1 + n2, volume |-> volume, difficulty |-> difficulty,
     effort |-> effort]

HalsteadZero == HalsteadOf(0, 0, 0, 0, AsF64(0), AsF64(0), AsF64(0))

FunctionOf(name, classname, complexity, lineno, endline) ==
    [name |-> name, classname |-> classname, is_method |-> classname # None,
     complexity |-> complexity, lineno |-> lineno, endline |-> endline]

\* a function with one `if` and one `for`
SrcA ==
    [parses |-> TRUE,
     raw |-> RawOf(5, 4, 4, 1, 0, 0, 1),
     functions |-> <<FunctionOf(NameF, None, 3, 2, 5)>>,
     classes |-> <<>>,
     halstead_total |-> HalsteadOf(1, 2, 1, 2, <<19, 4>>, <<1, 2>>, <<19, 8>>),
     halstead_functions |->
        <<[name |-> NameF, lineno |-> 2, endline |-> 5,
           metrics |-> HalsteadOf(1, 2, 1, 2, <<19, 4>>, <<1, 2>>, <<19, 8>>)]>>,
     mi |-> <<<<145, 2>>, "A">>]

\* two top-level functions of the same name
SrcB ==
    [parses |-> TRUE,
     raw |-> RawOf(7, 6, 6, 0, 0, 1, 0),
     functions |-> <<FunctionOf(NameG, None, 2, 1, 3), FunctionOf(NameG, None, 3, 5, 7)>>,
     classes |-> <<>>,
     halstead_total |-> HalsteadZero,
     halstead_functions |->
        <<[name |-> NameG, lineno |-> 1, endline |-> 3, metrics |-> HalsteadZero],
          [name |-> NameG, lineno |-> 5, endline |-> 7, metrics |-> HalsteadZero]>>,
     mi |-> <<AsF64(100), "A">>]

\* class C with the single method m (for + if)
SrcC ==
    [parses |-> TRUE,
     raw |-> RawOf(4, 4, 4, 0, 0, 0, 0),
     functions |-> <<FunctionOf(NameM, Some(NameC), 3, 2, 4)>>,
     classes |-> <<[name |-> NameC, methods |-> <<FunctionOf(NameM, Some(NameC), 3, 2, 4)>>,
                    real_complexity |-> 4, lineno |-> 1, endline |-> 4]>>,
     halstead_total |-> HalsteadZero,
     halstead_functions |->
        <<[name |-> NameM, lineno |-> 2, endline |-> 4, metrics |-> HalsteadZero]>>,
     mi |-> <<AsF64(100), "A">>]

\* a long module without functions, maintainability rank B
SrcD ==
    [parses |-> TRUE,
     raw |-> RawOf(9, 8, 8, 0, 0, 1, 0),
     functions |-> <<>>,
     classes |-> <<>>,
     halstead_total |-> HalsteadOf(2, 4, 3, 6, <<93, 4>>, <<3, 2>>, <<279, 8>>),
     halstead_functions |-> <<>>,
     mi |-> <<AsF64(15), "B">>]

\* `x = = 1`: one physical line that tokenizes but does not parse
SrcBad ==
    [parses |-> FALSE,
     raw |-> RawOf(1, 1, 1, 0, 0, 0, 0),
     functions |-> <<>>,
     classes |-> <<>>,
     halstead_total |-> HalsteadZero,
     halstead_functions |-> <<>>,
     mi |-> <<AsF64(0), "C">>]

BasePath == <<"/", "r">>
PathSA == <<"s", "/", "a">>
PathSB == <<"s", "/", "b">>
PathA == <<"a">>
PathS2B == <<"s", "2", "/", "b">>
AbsPathSA == BasePath \o <<Slash>> \o PathSA
AbsPathSB == BasePath \o <<Slash>> \o PathSB

\* PathBuf::join: an absolute right-hand side replaces the base
path_join(base, p) ==
    IF p # <<>> /\ Head(p) = Slash THEN p ELSE base \o <<Slash>> \o p

\* a tree maps the absolute path of each readable file to its source
TreeFull ==
    [p \in {path_join(BasePath, q) : q \in {PathSA, PathSB, PathA, PathS2B}} |->
        IF p = path_join(BasePath, PathSA) THEN SrcA
        ELSE IF p = path_join(BasePath, PathSB) THEN SrcB
        ELSE IF p = path_join(BasePath, PathA) THEN SrcC
        ELSE SrcD]

Restrict(tree, gone) == [p \in DOMAIN tree \ gone |-> tree[p]]

TreeNoSA == Restrict(TreeFull, {AbsPathSA})
TreeNoS == Restrict(TreeFull, {AbsPathSA, AbsPathSB})
\* the tree after s/b has been overwritten with text that does not parse
TreeBadSB == [p \in DOMAIN TreeFull |-> IF p = AbsPathSB THEN SrcBad ELSE TreeFull[p]]

\* fs::read_to_string(..).ok()
read_to_string(tree, abs_path) ==
    IF abs_path \in DOMAIN tree THEN Some(tree[abs_path]) ELSE None

----------------------------------------------------------------------------
(* analyze_revision: phase 1, one FileResult per readable file *)

\* any non-empty operator list switches every analyser on
includes_any(operators, name) == operators # <<>>

includes(operators, name) == \E i \in 1..Len(operators) : operators[i] = name

relative_path(p, base_path) ==
    IF starts_with(p, base_path)
        THEN trim_start_matches(SubSeq(p, Len(base_path) + 1, Len(p)), Slash)
        ELSE p

Range(s) == {s[i] : i \in 1..Len(s)}

directories_of(relative_paths) ==
    UNION {Range(get_parent_paths(relative_paths[i])) : i \in 1..Len(relative_paths)}

fullname(f) ==
    IF f.classname # None THEN f.classname[1] \o <<".">> \o f.name ELSE f.name

\* one added to the method average whatever the number of methods
ClassComplexity_complexity_plus_one(c) ==
    IF c.methods = <<>> THEN c.real_complexity
    ELSE (c.real_complexity \div Len(c.methods)) + 1

ClassComplexity_complexity(c) ==
    IF c.methods = <<>> THEN c.real_complexity
    ELSE LET methods_count == Len(c.methods)
         IN  (c.real_complexity \div methods_count)
             + (IF methods_count > 1 THEN 1 ELSE 0)

cyclomatic_total_of(src) ==
    SumInts([i \in 1..Len(src.functions) |-> src.functions[i].complexity])
    + SumInts([i \in 1..Len(src.classes) |-> ClassComplexity_complexity(src.classes[i])])

\* the closure body of the filter_map, for the path the caller handed in
file_result(given_path, base_path, tree, operators) ==
    LET abs_path == path_join(base_path, given_path)
        content == read_to_string(tree, abs_path)
        src == content[1]
        cc == includes(operators, "cyclomatic")
        hal == includes(operators, "halstead")
    IN  IF content = None THEN None
        ELSE Some(
          [rel_path |-> given_path,
           raw |-> IF includes(operators, "raw") THEN Some(src.raw) ELSE None,
           cyclomatic_total |->
              IF ~cc THEN None
              ELSE IF src.parses THEN Some(cyclomatic_total_of(src)) ELSE Some(0),
           cyclomatic_functions |->
              IF cc /\ src.parses
                THEN [i \in 1..Len(src.functions) |->
                        [name |-> fullname(src.functions[i]),
                         complexity |-> src.functions[i].complexity,
                         lineno |-> src.functions[i].lineno,
                         endline |-> src.functions[i].endline,
                         is_method |-> src.functions[i].is_method,
                         classname |-> src.functions[i].classname]]
                ELSE <<>>,
           cyclomatic_classes |->
              IF cc /\ src.parses
                THEN [i \in 1..Len(src.classes) |->
                        [name |-> src.classes[i].name,
                         complexity |-> ClassComplexity_complexity(src.classes[i]),
                         real_complexity |-> src.classes[i].real_complexity,
                         lineno |-> src.classes[i].lineno,
                         endline |-> src.classes[i].endline]]
                ELSE <<>>,
           halstead_total |->
              IF ~hal THEN None
              ELSE IF src.parses THEN Some(src.halstead_total) ELSE Some(HalsteadZero),
           halstead_functions |->
              IF hal /\ src.parses THEN src.halstead_functions ELSE <<>>,
           mi |-> IF includes(operators, "maintainability")
                    THEN Some(IF src.parses THEN src.mi ELSE <<AsF64(0), "C">>)
                    ELSE None])

RECURSIVE file_results(_, _, _, _)
file_results(paths, base_path, tree, operators) ==
    IF paths = <<>> THEN <<>>
    ELSE file_result(Head(paths), base_path, tree, operators)
         \o file_results(Tail(paths), base_path, tree, operators)

----------------------------------------------------------------------------
(* analyze_revision: phase 2, the rows of one revision *)

AggregateArgs == ColumnNames \ {"real_complexity", "lineno", "endline", "is_method", "classname"}
FunctionArgs == ColumnNames \ (RawFields \cup {"path_type", "real_complexity", "mi", "rank"})
ClassArgs == {"revision", "revision_date", "revision_author", "revision_message", "path",
              "complexity", "real_complexity", "lineno", "endline"}

RevisionArg(rev, c) ==
    IF c = "revision" THEN rev.key
    ELSE IF c = "revision_date" THEN rev.date
    ELSE IF c = "revision_author" THEN rev.author
    ELSE rev.message

RevisionColumns == {"revision", "revision_date", "revision_author", "revision_message"}

\* opt.and_then(|r| r.get(field).copied()) and opt.map(|h| h.field)
OptField(opt, field) == IF opt = None THEN None ELSE Some(opt[1][field])

file_row_args(result, rev) ==
    [c \in AggregateArgs |->
        IF c \in RevisionColumns THEN RevisionArg(rev, c)
        ELSE IF c = "path" THEN result.rel_path
        ELSE IF c = "path_type" THEN "file"
        ELSE IF c \in RawFields THEN OptField(result.raw, c)
        ELSE IF c = "complexity"
            THEN IF result.cyclomatic_total = None THEN None
                 ELSE Some(AsF64(result.cyclomatic_total[1]))
        ELSE IF c \in HalsteadFields THEN OptField(result.halstead_total, c)
        ELSE IF c = "mi" THEN IF result.mi = None THEN None ELSE Some(result.mi[1][1])
        ELSE IF result.mi = None THEN None ELSE Some(result.mi[1][2])]

Colon == ":"

\* halstead_functions.iter().find(|(n, ..)| n == name)
find_halstead(halstead_functions, name) ==
    LET I == {i \in 1..Len(halstead_functions) : halstead_functions[i].name = name}
    IN  IF I = {} THEN None ELSE Some(halstead_functions[MinOf(I)].metrics)

function_row_args(result, f, rev) ==
    LET hal == find_halstead(result.halstead_functions, f.name)
    IN  [c \in FunctionArgs |->
            IF c \in RevisionColumns THEN RevisionArg(rev, c)
            ELSE IF c = "path" THEN result.rel_path \o <<Colon>> \o f.name
            ELSE IF c \in HalsteadFields THEN OptField(hal, c)
            ELSE f[c]]

class_row_args(result, cls, rev) ==
    [c \in ClassArgs |->
        IF c \in RevisionColumns THEN RevisionArg(rev, c)
        ELSE IF c = "path" THEN result.rel_path \o <<Colon>> \o cls.name
        ELSE cls[c]]

\* the rows emitted for one FileResult, in emission order
file_emission(result, rev) ==
    <<[kind |-> "aggregate", a |-> file_row_args(result, rev)]>>
    \o [i \in 1..Len(result.cyclomatic_functions) |->
          [kind |-> "function",
           a |-> function_row_args(result, result.cyclomatic_functions[i], rev)]]
    \o [i \in 1..Len(result.cyclomatic_classes) |->
          [kind |-> "class",
           a |-> class_row_args(result, result.cyclomatic_classes[i], rev)]]

MapGet(m, k) == IF k \in DOMAIN m THEN Some(m[k]) ELSE None
MapPut(m, k, v) == [x \in DOMAIN m \cup {k} |-> IF x = k THEN v ELSE m[x]]
EmptyMap == <<>>

\* entry(k).or_default().push(v)
MapPush(m, k, v) ==
    MapPut(m, k, IF k \in DOMAIN m THEN Append(m[k], v) ELSE <<v>>)

\* entry(dir).or_default(), then += for every key of the file's raw map
MapAddRaw(m, k, raw) ==
    MapPut(m, k, [f \in RawFields |-> (IF k \in DOMAIN m THEN m[k][f] ELSE 0) + raw[f]])

EmptyDirs == [dir_raw |-> EmptyMap, dir_complexity |-> EmptyMap,
              dir_halstead |-> EmptyMap, dir_mi |-> EmptyMap]

RECURSIVE collect_file(_, _, _)
collect_file(acc, result, dirs) ==
    IF dirs = <<>> THEN acc
    ELSE LET dir == Head(dirs)
             next ==
               [dir_raw |-> IF result.raw # None
                              THEN MapAddRaw(acc.dir_raw, dir, result.raw[1])
                              ELSE acc.dir_raw,
                dir_complexity |-> IF result.cyclomatic_total # None
                              THEN MapPush(acc.dir_complexity, dir, result.cyclomatic_total[1])
                              ELSE acc.dir_complexity,
                dir_halstead |-> IF result.halstead_total # None
                              THEN MapPush(acc.dir_halstead, dir, result.halstead_total[1])
                              ELSE acc.dir_halstead,
                dir_mi |-> IF result.mi # None
                              THEN MapPush(acc.dir_mi, dir, result.mi[1])
                              ELSE acc.dir_mi]
         IN  collect_file(next, result, Tail(dirs))

RECURSIVE collect_dirs(_, _)
collect_dirs(acc, results) ==
    IF results = <<>> THEN acc
    ELSE collect_dirs(collect_file(acc, Head(results), get_parent_paths(Head(results).rel_path)),
                      Tail(results))

Column(s, f) == [i \in 1..Len(s) |-> s[i][f]]

mean_complexity(complexities) ==
    IF complexities = None THEN None
    ELSE IF complexities[1] = <<>> THEN Some(AsF64(0))
    ELSE Some(Frac(SumInts(complexities[1]), Len(complexities[1])))

sum_halstead(halsteads) ==
    IF halsteads = None THEN None
    ELSE Some([f \in HalsteadFields |->
                 IF f \in HalsteadF64Fields THEN SumF64(Column(halsteads[1], f))
                 ELSE SumInts(Column(halsteads[1], f))])

mean_mi(mis) ==
    IF mis = None \/ mis[1] = <<>> THEN None
    ELSE Some(FDivInt(SumF64(Column(mis[1], 1)), Len(mis[1])))

RankCount(v, r) == Cardinality({i \in 1..Len(v) : v[i][2] = r})

\* the ranks max_by_key can return: HashMap iteration order decides among ties
mode_candidates(v) ==
    LET ranks == {v[i][2] : i \in 1..Len(v)}
    IN  {r \in ranks : \A q \in ranks : RankCount(v, q) <= RankCount(v, r)}

Ranks == {"A", "B", "C"}

\* mode[dir]: the rank max_by_key returned for dir
mode_choices(dirs, directories) ==
    {mode \in [directories -> Ranks] :
        \A d \in directories :
            LET mis == MapGet(dirs.dir_mi, d)
            IN  IF mis = None \/ mis[1] = <<>> THEN mode[d] = "A"
                ELSE mode[d] \in mode_candidates(mis[1])}

directory_row_args(dir, dirs, mode, rev) ==
    LET raw == MapGet(dirs.dir_raw, dir)
        hal == sum_halstead(MapGet(dirs.dir_halstead, dir))
        mis == MapGet(dirs.dir_mi, dir)
    IN  [c \in AggregateArgs |->
            IF c \in RevisionColumns THEN RevisionArg(rev, c)
            ELSE IF c = "path" THEN dir
            ELSE IF c = "path_type" THEN IF dir = EmptyStr THEN "root" ELSE "directory"
            ELSE IF c \in RawFields THEN OptField(raw, c)
            ELSE IF c = "complexity" THEN mean_complexity(MapGet(dirs.dir_complexity, dir))
            ELSE IF c \in HalsteadFields THEN OptField(hal, c)
            ELSE IF c = "mi" THEN mean_mi(mis)
            ELSE IF mean_mi(mis) = None THEN None ELSE Some(mode[dir])]

RECURSIVE files_emission(_, _)
files_emission(results, rev) ==
    IF results = <<>> THEN <<>>
    ELSE file_emission(Head(results), rev) \o files_emission(Tail(results), rev)

\* every row of one analyze_revision call; order is the iteration order of the
\* directories HashSet
revision_emission(results, order, mode, rev) ==
    files_emission(results, rev)
    \o [i \in 1..Len(order) |->
          [kind |-> "aggregate",
           a |-> directory_row_args(order[i], collect_dirs(EmptyDirs, results), mode, rev)]]

add_row(b, e) ==
    IF e.kind = "aggregate" THEN add_aggregate_row(b, e.a)
    ELSE IF e.kind = "function" THEN add_function_row(b, e.a)
    ELSE add_class_row(b, e.a)

tracked_row(e) ==
    IF e.kind = "aggregate" THEN AggregateMetricRow(e.a)
    ELSE IF e.kind = "function" THEN FunctionMetricRow(e.a)
    ELSE ClassMetricRow(e.a)

RECURSIVE add_rows(_, _)
add_rows(b, emission) ==
    IF emission = <<>> THEN b ELSE add_rows(add_row(b, Head(emission)), Tail(emission))

root_loc(dirs) ==
    IF EmptyStr \in DOMAIN dirs.dir_raw THEN dirs.dir_raw[EmptyStr]["loc"] ELSE 0

Perms(S) ==
    {f \in [1..Cardinality(S) -> S] : \A i, j \in 1..Cardinality(S) : i # j => f[i] # f[j]}

----------------------------------------------------------------------------
(* State machine *)

Objects == {"a", "b"}

\* the operators argument each session object is constructed with
OperatorsOf(o) ==
    IF o = "a" THEN <<"raw", "cyclomatic", "halstead", "maintainability", "unknown">>
    ELSE <<"raw", "cyclomatic">>

Rev1 == [key |-> "r1", date |-> 20, author |-> Some("ann"), message |-> None]
Rev2 == [key |-> "r2", date |-> 10, author |-> None, message |-> Some("fix")]

Input(paths, tree, rev) == [paths |-> paths, tree |-> tree, rev |-> rev]

\* analyze_revision arguments explored together with the session operations
StoreInputs == {Input(<<PathSA, PathA>>, TreeFull, Rev1), Input(<<PathSA>>, TreeFull, Rev2)}

\* analyze_revision arguments explored one call at a time
RevInputs ==
    {Input(paths, tree, Rev1) :
        paths \in {<<>>, <<PathSA, PathSB>>, <<PathA>>, <<AbsPathSA, AbsPathSB>>,
                   <<PathSA, PathS2B>>, <<PathSA, PathSA>>},
        tree \in {TreeFull, TreeNoSA, TreeNoS, TreeBadSB}}

QueryPaths == {PathSA, PathA \o <<Colon>> \o NameC, <<"s">>}

NoOp == [op |-> "new", obj |-> "none", arg |-> <<>>, rows |-> <<>>, ret |-> 0]

NoFlush == [pre |-> NoFile, batch |-> EmptyColumns, combined |-> EmptyColumns]

Init ==
    /\ disk = NoFile
    /\ idx = [o \in Objects |-> WilyIndex_new(OperatorsOf(o))]
    /\ active = "none"
    /\ calls = 0
    /\ sessions = 0
    /\ last = NoOp
    /\ emitted = <<>>
    /\ pc = "idle"
    /\ inflight = NoFlush

\* `with index:` begins: __enter__
Enter(o) ==
    /\ active = "none"
    /\ pc = "idle"
    /\ LET state == enter_state(idx[o].state, disk)
           raised == ~idx[o].state.loaded /\ ~state.loaded
       IN  /\ idx' = [idx EXCEPT ![o].state = state]
           /\ active' = IF raised THEN "none" ELSE o
           /\ last' = [NoOp EXCEPT !.op = IF raised THEN "enter_error" ELSE "enter",
                                   !.obj = o]
    /\ sessions' = sessions + 1
    /\ UNCHANGED <<disk, calls, emitted, pc, inflight>>

\* index.analyze_revision(paths, base_path, ...) inside the with block
AnalyzeRevision(o, inp) ==
    /\ active = o
    /\ pc = "idle"
    /\ LET relative_paths == [i \in 1..Len(inp.paths) |->
                                relative_path(inp.paths[i], BasePath)]
           directories == directories_of(relative_paths)
           results == file_results(inp.paths, BasePath, inp.tree, idx[o].operators)
           dirs == collect_dirs(EmptyDirs, results)
       IN  \E order \in Perms(directories) :
           \E mode \in mode_choices(dirs, directories) :
              LET emission == revision_emission(results, order, mode, inp.rev)
                  rows == [i \in 1..Len(emission) |-> tracked_row(emission[i])]
              IN  /\ idx' = [idx EXCEPT ![o].builder = add_rows(@, emission),
                                        ![o].state.new_rows = @ \o rows]
                  /\ emitted' = emitted \o rows
                  /\ last' = [op |-> "analyze_revision", obj |-> o,
                              arg |-> [paths |-> inp.paths, base_path |-> BasePath,
                                       tree |-> inp.tree, rev |-> inp.rev,
                                       read |-> Column(results, "rel_path")],
                              rows |-> rows, ret |-> root_loc(dirs)]
    /\ calls' = calls + 1
    /\ UNCHANGED <<disk, active, sessions, pc, inflight>>

\* index[path] inside the with block
GetItem(o, path) ==
    /\ active = o
    /\ pc = "idle"
    /\ last' = [op |-> "getitem", obj |-> o, arg |-> path,
                rows |-> getitem(idx[o].state, path), ret |-> 0]
    /\ UNCHANGED <<disk, idx, active, calls, sessions, emitted, pc, inflight>>

\* the with block ends: __exit__ as one step
Exit(o) ==
    /\ active = o
    /\ pc = "idle"
    /\ IF is_empty(idx[o].builder)
          THEN UNCHANGED <<disk, idx>>
          ELSE LET fin == finish(idx[o].builder)
               IN  /\ disk' = append_parquet(disk, fin.batch)
                   /\ idx' = [idx EXCEPT ![o].builder = fin.builder]
    /\ active' = "none"
    /\ last' = [NoOp EXCEPT !.op = "exit", !.obj = o]
    /\ UNCHANGED <<calls, sessions, emitted, pc, inflight>>

Next ==
    \E o \in Objects :
        \/ sessions < MaxSessions /\ Enter(o)
        \/ \E inp \in StoreInputs : calls < MaxCalls /\ AnalyzeRevision(o, inp)
        \/ \E path \in QueryPaths : GetItem(o, path)
        \/ Exit(o)

Spec == Init /\ [][Next]_vars

\* one analyze_revision call over the wider argument set
NextRev ==
    \E o \in Objects :
        \/ sessions < MaxSessions /\ Enter(o)
        \/ \E inp \in RevInputs : calls < MaxRevCalls /\ AnalyzeRevision(o, inp)
        \/ Exit(o)

SpecRev == Init /\ [][NextRev]_vars

\* session objects entered again after other sessions, one analyze_revision call
NextReuse ==
    \E o \in Objects :
        \/ sessions < MaxReuseSessions /\ Enter(o)
        \/ \E inp \in StoreInputs : calls < MaxRevCalls /\ AnalyzeRevision(o, inp)
        \/ \E path \in QueryPaths : GetItem(o, path)
        \/ Exit(o)

SpecReuse == Init /\ [][NextReuse]_vars

----------------------------------------------------------------------------
(* __exit__ step by step: append_parquet and write_parquet may stop or fail  *)
(* between any two file operations.                                           *)

\* builder.finish(), then append_parquet up to (not including) File::create
ExitStart(o) ==
    /\ active = o
    /\ pc = "idle"
    /\ IF is_empty(idx[o].builder)
          THEN /\ active' = "none"
               /\ last' = [NoOp EXCEPT !.op = "exit", !.obj = o]
               /\ UNCHANGED <<idx, pc, inflight>>
          ELSE LET fin == finish(idx[o].builder)
                   combined == append_combined(disk, fin.batch)
               IN  /\ idx' = [idx EXCEPT ![o].builder = fin.builder]
                   /\ inflight' = [pre |-> disk, batch |-> fin.batch,
                                   combined |-> combined.value]
                   /\ IF combined.ok
                         THEN /\ pc' = "opened"
                              /\ UNCHANGED <<active, last>>
                         ELSE /\ pc' = "idle"
                              /\ active' = "none"
                              /\ last' = [NoOp EXCEPT !.op = "exit_error", !.obj = o]
    /\ UNCHANGED <<disk, calls, sessions, emitted>>

\* write_parquet: File::create truncates the file at output_path
ExitCreate ==
    /\ pc = "opened"
    /\ disk' = FileCreate(disk)
    /\ pc' = "created"
    /\ UNCHANGED <<idx, active, calls, sessions, last, emitted, inflight>>

\* write_parquet: writer.write(&batch)
ExitWrite ==
    /\ pc = "created"
    /\ disk' = WriterWrite(disk, inflight.combined)
    /\ pc' = "written"
    /\ UNCHANGED <<idx, active, calls, sessions, last, emitted, inflight>>

\* write_parquet: writer.close() writes the footer; __exit__ returns
ExitClose ==
    /\ pc = "written"
    /\ disk' = WriterClose(disk)
    /\ pc' = "idle"
    /\ last' = [NoOp EXCEPT !.op = "exit", !.obj = active]
    /\ active' = "none"
    /\ UNCHANGED <<idx, calls, sessions, emitted, inflight>>

\* the process stops in the middle of __exit__
Crash ==
    /\ pc \in {"opened", "created", "written"}
    /\ pc' = "crashed"
    /\ UNCHANGED <<disk, idx, active, calls, sessions, last, emitted, inflight>>

\* the pending file operation returns an error: __exit__ raises PyIOError
Fail ==
    /\ pc \in {"opened", "created", "written"}
    /\ pc' = "idle"
    /\ last' = [NoOp EXCEPT !.op = "exit_error", !.obj = active]
    /\ active' = "none"
    /\ UNCHANGED <<disk, idx, calls, sessions, emitted, inflight>>

NextCrash ==
    \/ \E o \in Objects :
        \/ sessions < MaxSessions /\ Enter(o)
        \/ \E inp \in StoreInputs : calls < MaxCalls /\ AnalyzeRevision(o, inp)
        \/ ExitStart(o)
    \/ ExitCreate
    \/ ExitWrite
    \/ ExitClose
    \/ Crash
    \/ Fail

SpecCrash == Init /\ [][NextCrash]_vars

----------------------------------------------------------------------------
(* Properties of the store session *)

Count(seq, x) == Cardinality({i \in 1..Len(seq) : seq[i] = x})

IsPrefix(s, t) == Len(s) <= Len(t) /\ SubSeq(t, 1, Len(s)) = s

\* the rows a freshly constructed session object iterates over, when readable
Stored(file) == load_rows_from_parquet(file).value

C2_RoundTrip ==
    active = "none" => /\ load_rows_from_parquet(disk).ok
                       /\ open_and_iterate(disk) = emitted

\* a closed store holding file, function, class, directory and root rows, with
\* null and non-null metric and revision fields
C2_Witness ==
    /\ active = "none"
    /\ last.op = "exit"
    /\ disk.exists
    /\ {r.path_type : r \in Range(Stored(disk))} =
          {"file", "function", "class", "directory", "root"}
    /\ \E r \in Range(Stored(disk)) : r.revision_author = None
    /\ \E r \in Range(Stored(disk)) : r.revision_message # None
    /\ \E r \in Range(Stored(disk)) : r.path_type = "file" /\ r.volume = None
    /\ \E r \in Range(Stored(disk)) : r.path_type = "file" /\ r.volume # None

\* a step that ends the with block of session object o by returning from __exit__
Closes(o) == active = o /\ active' = "none" /\ last'.op = "exit"

\* C3: every close leaves on disk the rows that were there before followed by
\* the rows emitted since, each once and in emission order, and a session
\* opened afterwards sees exactly the rows the closing session saw.
C3_AppendOnly ==
    [][\A o \in Objects :
          Closes(o) =>
             /\ IsPrefix(Stored(disk), Stored(disk'))
             /\ Stored(disk') = emitted'
             /\ open_and_iterate(disk') = all_rows(idx'[o].state)]_vars

\* C4: a close with no rows buffered since the last flush leaves the store
\* file as it is: neither created nor rewritten.
C4_EmptyCloseWritesNothing ==
    [][\A o \in Objects :
          (Closes(o) /\ idx[o].builder.cols = EmptyColumns) => disk' = disk]_vars

\* C5: when __exit__ fails or the process stops inside it, the store file is
\* either as it was before the flush began or holds the earlier rows followed
\* by the complete batch.
C5_FlushAllOrNothing ==
    (pc = "crashed" \/ last.op = "exit_error") =>
        \/ disk = inflight.pre
        \/ /\ load_rows_from_parquet(disk).ok
           /\ Stored(disk) = Stored(inflight.pre) \o rows_of_batches(<<inflight.batch>>)

\* C6: the store holds at most one row per (revision, path, path_type).
C6_OneRowPerKey ==
    LET rows == Stored(disk)
    IN  \A i, j \in 1..Len(rows) :
           (/\ rows[i].revision = rows[j].revision
            /\ rows[i].path = rows[j].path
            /\ rows[i].path_type = rows[j].path_type) => i = j

----------------------------------------------------------------------------
(* Properties of the rows of one analyze_revision call *)

Analyzed == last.op = "analyze_revision"

\* the repository-relative form of a path handed to analyze_revision
Rel(p) == relative_path(p, last.arg.base_path)

RowsOfType(types) ==
    LET OfType(r) == r.path_type \in types
    IN  SelectSeq(last.rows, OfType)

\* d's descendants: the file rows below d, by repository-relative path
Descendants(d) ==
    LET Below(r) == r.path_type = "file"
                    /\ (d = EmptyStr \/ starts_with(Rel(r.path), d \o <<Slash>>))
    IN  SelectSeq(last.rows, Below)

Present(rows, f) ==
    LET Has(r) == r[f] # None
    IN  [i \in 1..Len(SelectSeq(rows, Has)) |-> SelectSeq(rows, Has)[i][f][1]]

\* the source text the working tree holds for a path handed to analyze_revision
SourceAt(p) == TreeFull[path_join(last.arg.base_path, p)]

\* C7: called with absolute paths under base_path, every row path is
\* repository-relative without a leading '/': the relative file path for file
\* rows, "<relpath>:<fullname>" for function rows, "<relpath>:<ClassName>"
\* for class rows, the empty string for the root row.
C7_RelativeRowPaths ==
    LET paths == last.arg.paths
    IN  (/\ Analyzed
         /\ paths # <<>>
         /\ \A i \in 1..Len(paths) :
               starts_with(paths[i], last.arg.base_path \o <<Slash>>)) =>
        \A r \in Range(last.rows) :
           /\ r.path = EmptyStr \/ Head(r.path) # Slash
           /\ r.path_type = "root" => r.path = EmptyStr
           /\ r.path_type = "file" => \E i \in 1..Len(paths) : r.path = Rel(paths[i])
           /\ r.path_type = "function" =>
                 \E i \in 1..Len(paths) :
                    \E f \in Range(SourceAt(paths[i]).functions) :
                       r.path = Rel(paths[i]) \o <<Colon>> \o fullname(f)
           /\ r.path_type = "class" =>
                 \E i \in 1..Len(paths) :
                    \E c \in Range(SourceAt(paths[i]).classes) :
                       r.path = Rel(paths[i]) \o <<Colon>> \o c.name

\* C8: on a directory or root row every raw and Halstead field that some
\* descendant file row carries is the sum over the descendants, complexity is
\* the mean of the descendants' complexities and mi the mean of their mi.
C8_DirectoryAggregates ==
    Analyzed =>
        \A d \in Range(RowsOfType({"directory", "root"})) :
            LET below == Descendants(d.path)
            IN  /\ \A f \in RawFields \cup HalsteadIntFields :
                      Present(below, f) # <<>> => d[f] = Some(SumInts(Present(below, f)))
                /\ \A f \in HalsteadF64Fields :
                      Present(below, f) # <<>> => d[f] = Some(SumF64(Present(below, f)))
                /\ \A f \in {"complexity", "mi"} :
                      Present(below, f) # <<>> =>
                         d[f] = Some(FDivInt(SumF64(Present(below, f)),
                                             Len(Present(below, f))))

\* C9: a directory or root row is emitted only when some file row of the call
\* lies below that directory.
C9_DirectoryNeedsFile ==
    Analyzed =>
        \A d \in Range(RowsOfType({"directory", "root"})) : Descendants(d.path) # <<>>

\* C10: a call without source files emits exactly one row, the root row, with
\* zero sums.
C10_EmptyRevisionRootRow ==
    (Analyzed /\ last.arg.paths = <<>>) =>
        /\ Len(last.rows) = 1
        /\ last.rows[1].path = EmptyStr
        /\ last.rows[1].path_type = "root"
        /\ \A f \in RawFields : last.rows[1][f] = Some(0)

----------------------------------------------------------------------------
(* Properties of unreadable and unparsable files *)

\* the rows of the last call that belong to the source file handed in as p
RowsOfFile(p) ==
    LET Belongs(r) ==
           \/ r.path_type = "file" /\ r.path = p
           \/ r.path_type \in {"function", "class"} /\ starts_with(r.path, p \o <<Colon>>)
    IN  SelectSeq(last.rows, Belongs)

\* the rows the same call emits for p in a tree where every file is readable
RowsWhenReadable(p) ==
    LET result == file_result(p, last.arg.base_path, TreeFull, idx[last.obj].operators)
        emission == file_emission(result[1], last.arg.rev)
    IN  [i \in 1..Len(emission) |-> tracked_row(emission[i])]

Unreadable == {p \in Range(last.arg.paths) : p \notin Range(last.arg.read)}

\* C11: a call with an unreadable file returns normally, emits no file,
\* function or class row for that file, emits for every other file the rows it
\* emits when all files are readable, and every directory above the unreadable
\* file has a row whose raw sums are those of the readable files below it.
C11_UnreadableFileSkipped ==
    (Analyzed /\ Unreadable # {}) =>
        /\ \A p \in Unreadable : RowsOfFile(p) = <<>>
        /\ \A p \in Range(last.arg.read) :
              \A r \in Range(RowsWhenReadable(p)) :
                 Count(RowsOfFile(p), r) = Count(last.arg.read, p) * Count(RowsWhenReadable(p), r)
        /\ \A p \in Unreadable :
              \A dir \in Range(get_parent_paths(Rel(p))) :
                 \E d \in Range(RowsOfType({"directory", "root"})) :
                    /\ d.path = dir
                    /\ \A f \in RawFields :
                          Present(Descendants(dir), f) # <<>> =>
                             d[f] = Some(SumInts(Present(Descendants(dir), f)))

\* the files of the last call that were read and did not parse
Unparsable ==
    {p \in Range(last.arg.read) :
        ~last.arg.tree[path_join(last.arg.base_path, p)].parses}

\* loc of the files of the last call that were read, parsed and lie below dir
ParsedLocBelow(dir) ==
    LET Counts(p) == /\ p \notin Unparsable
                     /\ dir \in Range(get_parent_paths(Rel(p)))
        below == SelectSeq(last.arg.read, Counts)
    IN  [i \in 1..Len(below) |->
            last.arg.tree[path_join(last.arg.base_path, below[i])].raw.loc]

\* C12: a file that fails to parse contributes no file, function or class row,
\* and its counts do not enter the sums of the directory rows.
C12_ParseFailureEmitsNoRow ==
    (Analyzed /\ Unparsable # {}) =>
        /\ \A p \in Unparsable : RowsOfFile(p) = <<>>
        /\ \A d \in Range(RowsOfType({"directory", "root"})) :
              d.loc # None => d.loc = Some(SumInts(ParsedLocBelow(d.path)))

----------------------------------------------------------------------------
(* Properties of single rows *)

\* every row held by the store file or by a session object
HeldRows ==
    Range(Stored(disk)) \cup UNION {Range(all_rows(idx[o].state)) : o \in Objects}

AllNull(r, fields) == \A f \in fields : r[f] = None
AllSet(r, fields) == \A f \in fields : r[f] # None

\* C13: path_type is one of root, directory, file, function, class; among the
\* aggregate rows it is root exactly for the empty path; aggregate rows have
\* lineno, endline, is_method, classname and real_complexity null; function
\* rows have complexity, lineno, endline, is_method set and the raw fields, mi
\* and rank null; class rows have complexity, real_complexity, lineno, endline
\* set and the raw and Halstead fields null.
C13_Nullability ==
    \A r \in HeldRows :
        /\ r.path_type \in {"root", "directory", "file", "function", "class"}
        /\ r.path_type \in {"root", "directory", "file"} =>
              /\ (r.path_type = "root") <=> (r.path = EmptyStr)
              /\ AllNull(r, {"lineno", "endline", "is_method", "classname",
                             "real_complexity"})
        /\ r.path_type = "function" =>
              /\ AllSet(r, {"complexity", "lineno", "endline", "is_method"})
              /\ AllNull(r, RawFields \cup {"mi", "rank"})
        /\ r.path_type = "class" =>
              /\ AllSet(r, {"complexity", "real_complexity", "lineno", "endline"})
              /\ AllNull(r, RawFields \cup HalsteadFields)

\* the store file holds a method row, a class row and rows of the three
\* aggregate kinds, written by a session and read back
C13_Witness ==
    /\ \E r \in Range(Stored(disk)) :
          r.path_type = "function" /\ r.is_method = Some(TRUE) /\ r.classname # None
    /\ \E r \in Range(Stored(disk)) : r.path_type = "function" /\ r.is_method = Some(FALSE)
    /\ \E r \in Range(Stored(disk)) : r.path_type = "class"
    /\ \A t \in {"root", "directory", "file"} :
          \E r \in Range(Stored(disk)) : r.path_type = t /\ r.loc # None

----------------------------------------------------------------------------
(* Determinism of analyze_revision *)

SameRows(rows, other) ==
    /\ Len(rows) = Len(other)
    /\ \A r \in Range(rows) \cup Range(other) : Count(rows, r) = Count(other, r)

\* the row sequences analyze_revision can produce for the arguments, tree and
\* operator list of the last call
PossibleRows ==
    LET paths == last.arg.paths
        relative_paths == [i \in 1..Len(paths) |->
                             relative_path(paths[i], last.arg.base_path)]
        directories == directories_of(relative_paths)
        results == file_results(paths, last.arg.base_path, last.arg.tree,
                                idx[last.obj].operators)
        dirs == collect_dirs(EmptyDirs, results)
    IN  {[i \in 1..Len(revision_emission(results, order, mode, last.arg.rev)) |->
            tracked_row(revision_emission(results, order, mode, last.arg.rev)[i])] :
         order \in Perms(directories), mode \in mode_choices(dirs, directories)}

\* C14: every run of analyze_revision on the same tree, operator list and
\* revision metadata gives the rows of the last call, up to their order.
C14_Deterministic ==
    Analyzed => \A other \in PossibleRows : SameRows(last.rows, other)

----------------------------------------------------------------------------
(* The metric analysers as functions of one source text *)

MaxBody == 3
MaxMethodComplexity == 3

\* sequences over S of length at most n
SeqsUpTo(S, n) == UNION {[1..k -> S] : k \in 0..n}

\* the session variables of a process that only calls an analyser on `input`
AnalyserInit(analyser, input) ==
    /\ disk = NoFile
    /\ idx = [o \in Objects |-> WilyIndex_new(OperatorsOf(o))]
    /\ active = "none"
    /\ calls = 0
    /\ sessions = 0
    /\ last = [NoOp EXCEPT !.op = analyser, !.arg = input]
    /\ emitted = <<>>
    /\ pc = "idle"
    /\ inflight = NoFlush

\* the analyser returns `ret` for the pending input
AnalyserReturn(analyser, ret) ==
    /\ last.op = analyser
    /\ last' = [last EXCEPT !.op = "return", !.obj = analyser, !.ret = ret]
    /\ UNCHANGED <<disk, idx, active, calls, sessions, emitted, pc, inflight>>

\* A statement of a class body, as visit_stmt sees it: the decision points it
\* adds to the visitor and the complexities of the functions it defines.
ClassStmt(complexity, functions) == [complexity |-> complexity, functions |-> functions]

ClassStmts ==
    {ClassStmt(k, <<>>) : k \in 0..1}
    \cup {ClassStmt(0, <<c>>) : c \in 1..MaxMethodComplexity}
    \cup {ClassStmt(1, <<1, c>>) : c \in 1..MaxMethodComplexity}

RECURSIVE class_body_complexity(_, _)
class_body_complexity(body, body_complexity) ==
    IF body = <<>> THEN body_complexity
    ELSE LET funcs_complexity == SumInts(Head(body).functions)
             funcs_count == Len(Head(body).functions)
         IN  class_body_complexity(Tail(body),
                body_complexity + Head(body).complexity
                + funcs_complexity - funcs_count + funcs_count)

RECURSIVE class_methods(_)
class_methods(body) ==
    IF body = <<>> THEN <<>>
    ELSE [i \in 1..Len(Head(body).functions) |->
            FunctionOf(NameM, Some(NameC), Head(body).functions[i], i, i)]
         \o class_methods(Tail(body))

visit_class(body) ==
    [name |-> NameC, methods |-> class_methods(body),
     real_complexity |-> class_body_complexity(body, 1)]

VisitClass ==
    LET cls == visit_class(last.arg)
    IN  AnalyserReturn("visit_class",
                       [class |-> cls, complexity |-> ClassComplexity_complexity(cls)])

InitClass == \E body \in SeqsUpTo(ClassStmts, MaxBody) : AnalyserInit("visit_class", body)

SpecClass == InitClass /\ [][VisitClass]_vars

Returned(analyser) == last.op = "return" /\ last.obj = analyser

\* C15: a class with methods reports floor(real_complexity / methods_count),
\* plus one when there are several methods, which is at most real_complexity;
\* a class without methods reports real_complexity; both are at least 1.
C15_ClassComplexity ==
    Returned("visit_class") =>
        LET methods_count == Len(last.ret.class.methods)
            real == last.ret.class.real_complexity
            reported == last.ret.complexity
        IN  /\ methods_count >= 1 =>
                 /\ reported <= real
                 /\ reported = (real \div methods_count)
                               + (IF methods_count > 1 THEN 1 ELSE 0)
            /\ methods_count = 0 => reported = real
            /\ reported >= 1
            /\ real >= 1

\* a class with several methods whose average is rounded down
C15_Witness ==
    /\ Returned("visit_class")
    /\ Len(last.ret.class.methods) > 1
    /\ last.ret.class.real_complexity % Len(last.ret.class.methods) # 0
    /\ last.ret.complexity < last.ret.class.real_complexity

----------------------------------------------------------------------------
(* Maintainability index of file rows *)

\* comparisons of an f64 with an integer
FGreater(x, n) == x[1] > n * x[2]
FAtMost(x, n) == x[1] <= n * x[2]
FAtLeast(x, n) == x[1] >= n * x[2]

\* C16: a file row that carries mi has 0 <= mi <= 100 and the rank its mi
\* falls into (A above 19, B above 9 up to 19, C up to 9), and its mi is 100
\* when its Halstead volume is not positive or its logical-line count is 0.
C16_MaintainabilityIndex ==
    Analyzed =>
        \A r \in Range(RowsOfType({"file"})) :
            r.mi # None =>
                LET mi == r.mi[1]
                IN  /\ FAtLeast(mi, 0) /\ FAtMost(mi, 100)
                    /\ r.rank \in {Some("A"), Some("B"), Some("C")}
                    /\ (r.rank = Some("A")) <=> FGreater(mi, 19)
                    /\ (r.rank = Some("B")) <=> (FGreater(mi, 9) /\ FAtMost(mi, 19))
                    /\ (r.rank = Some("C")) <=> FAtMost(mi, 9)
                    /\ (\/ (r.volume # None /\ FAtMost(r.volume[1], 0))
                        \/ (r.lloc # None /\ r.lloc[1] = 0)) => mi = AsF64(100)

----------------------------------------------------------------------------
(* raw.rs: physical lines, the token stream of the lexer, and the counts *)

MaxItems == 3

DQuote == "\""
Hash == "#"
Space == " "
Backslash == "\\"

\* A source text is a sequence of items. Each item is the text of its physical
\* lines (every line ends with '\n') and the tokens the lexer returns for it.
Item(lines, tokens) == [lines |-> lines, tokens |-> tokens]

BlankItem == Item(<<EmptyStr>>, <<"NonLogicalNewline">>)
CommentItem == Item(<<<<Hash, "c">>>>, <<"Comment", "NonLogicalNewline">>)
NameItem == Item(<<<<"x">>>>, <<"Name", "Newline">>)
TwoStatementsItem == Item(<<<<"x", ";", "y">>>>, <<"Name", "Semi", "Name", "Newline">>)
IfItem == Item(<<<<"i", "f", Space, "x", ":", "y">>>>, <<"If", "Name", "Colon", "Name", "Newline">>)
StringItem == Item(<<<<DQuote, "s", DQuote>>>>, <<"String", "Newline">>)
DocItem == Item(<<<<DQuote, DQuote, DQuote, "d", DQuote, DQuote, DQuote>>>>,
                <<"String", "Newline">>)
LongDocItem == Item(<<<<DQuote, DQuote, DQuote, "a">>, <<DQuote, DQuote, DQuote>>>>,
                    <<"String", "Newline">>)

\* d={1:2}
DictItem == Item(<<<<"d", "=", "{", "1", ":", "2", "}">>>>,
                 <<"Name", "Equal", "Lbrace", "Int", "Colon", "Int", "Rbrace", "Newline">>)

RawItems == {BlankItem, CommentItem, NameItem, TwoStatementsItem, IfItem,
             StringItem, DocItem, LongDocItem, DictItem}

RECURSIVE Flatten(_)
Flatten(seqs) == IF seqs = <<>> THEN <<>> ELSE Head(seqs) \o Flatten(Tail(seqs))

\* LineTable::new
LineTable(source) == Flatten(Column(source, "lines"))

\* the tokens lexer.next_token() returns, up to and including EndOfFile
TokenStream(source) == Append(Flatten(Column(source, "tokens")), "EndOfFile")

\* tokenize_source: the logical lines and the line number recorded with each
RECURSIVE logical_lines(_, _, _)
logical_lines(tokens, current_line, current_line_number) ==
    IF tokens = <<>> THEN <<>>
    ELSE LET kind == Head(tokens)
             line == Append(current_line, kind)
         IN  IF kind = "Newline"
                THEN <<[tokens |-> line, line_number |-> current_line_number]>>
                     \o logical_lines(Tail(tokens), <<>>, current_line_number + 1)
             ELSE IF kind = "EndOfFile"
                THEN <<[tokens |-> line, line_number |-> current_line_number]>>
             ELSE logical_lines(Tail(tokens), line, current_line_number)

count_logical_segment(tokens) ==
    LET Kept(kind) == kind \notin {"Comment", "Newline", "NonLogicalNewline",
                                   "Indent", "Dedent"}
        processed == SelectSeq(tokens, Kept)
        colons == {i \in 1..Len(processed) : processed[i] = "Colon"}
    IN  IF tokens = <<>> \/ processed = <<>> THEN 0
        ELSE IF colons # {}
            THEN IF \E i \in (MaxOf(colons) + 1)..Len(processed) :
                       processed[i] # "EndOfFile"
                    THEN 2 ELSE 1
        ELSE IF \E i \in 1..Len(processed) : processed[i] # "EndOfFile" THEN 1
        ELSE 0

RECURSIVE count_logical_line(_)
count_logical_line(tokens) ==
    LET semis == {i \in 1..Len(tokens) : tokens[i] = "Semi"}
    IN  IF tokens = <<>> THEN 0
        ELSE IF semis = {} THEN count_logical_segment(tokens)
        ELSE count_logical_segment(SubSeq(tokens, 1, MinOf(semis) - 1))
             + (IF MinOf(semis) = Len(tokens) THEN 0
                ELSE count_logical_line(SubSeq(tokens, MinOf(semis) + 1, Len(tokens))))

tokenize_source(source) ==
    LET tokens == TokenStream(source)
        lines == logical_lines(tokens, <<>>, 1)
    IN  [logical_lines |-> lines,
         comment_count |-> Cardinality({i \in 1..Len(tokens) : tokens[i] = "Comment"}),
         lloc |-> SumInts([i \in 1..Len(lines) |-> count_logical_line(lines[i].tokens)])]


\* str::trim_start and str::trim().is_empty() on a line of text
trim_start(text) == trim_start_matches(text, Space)
is_blank(text) == trim_start(text) = EmptyStr

parse_string_prefix(text) ==
    LET PrefixChars == {"r", "u", "f", "b", "t", "R", "U", "F", "B", "T"}
        stops == {i \in 1..Len(text) : text[i] \notin PrefixChars}
        at == IF stops = {} THEN Len(text) ELSE MinOf(stops) - 1
    IN  [prefix_len |-> at,
         is_raw |-> \E i \in 1..at : text[i] \in {"r", "R"}]

\* the number of backslashes directly in front of position at
RECURSIVE escapes_before(_, _)
escapes_before(text, at) ==
    IF at > 1 /\ text[at - 1] = Backslash THEN 1 + escapes_before(text, at - 1) ELSE 0

closing_triple_in_slice(text, quote, is_raw) ==
    \E at \in 1..(Len(text) - 2) :
        /\ text[at] = quote /\ text[at + 1] = quote /\ text[at + 2] = quote
        /\ (is_raw \/ escapes_before(text, at) % 2 = 0)

Single(line) == [multi |-> FALSE, start |-> line, end |-> line]
Multi(start, end) == [multi |-> TRUE, start |-> start, end |-> end]

docstring_extent(lines, start_line) ==
    IF start_line = 0 \/ start_line > Len(lines) THEN Single(start_line)
    ELSE LET trimmed == trim_start(lines[start_line])
             prefix == parse_string_prefix(trimmed)
             rest == SubSeq(trimmed, prefix.prefix_len + 1, Len(trimmed))
             closing == {line \in (start_line + 1)..Len(lines) :
                            closing_triple_in_slice(lines[line], rest[1], prefix.is_raw)}
         IN  IF Len(rest) < 3 THEN Single(start_line)
             ELSE IF rest[1] \notin {DQuote, "'"} THEN Single(start_line)
             ELSE IF ~(rest[1] = rest[2] /\ rest[2] = rest[3]) THEN Single(start_line)
             ELSE IF closing_triple_in_slice(SubSeq(rest, 4, Len(rest)), rest[1],
                                             prefix.is_raw)
                THEN Single(start_line)
             ELSE IF closing # {} THEN Multi(start_line, MinOf(closing))
             ELSE Multi(start_line, MaxOf({Len(lines), start_line}))

is_docstring_candidate(tokens) ==
    LET Kept(kind) == kind \notin {"Indent", "Dedent", "Newline", "NonLogicalNewline",
                                   "EndOfFile"}
    IN  SelectSeq(tokens, Kept) = <<"String">>

NoDocstrings(lines) ==
    [mask |-> [i \in 1..Len(lines) |-> FALSE], multi_line |-> 0, blank_lines |-> 0,
     single_line |-> 0]

\* the body of the loop of detect_docstrings for one logical line
mark_docstring(stats, lines, logical) ==
    LET extent == docstring_extent(lines, logical.line_number)
        bounded_end == MinOf({extent.end, Len(lines)})
        bounded_start == MinOf({extent.start, Len(lines)})
        covered == bounded_start..bounded_end
    IN  IF ~is_docstring_candidate(logical.tokens) THEN stats
        ELSE IF ~extent.multi
            THEN IF extent.start = 0 \/ extent.start > Len(lines) THEN stats
                 ELSE [stats EXCEPT !.mask[extent.start] = TRUE,
                                    !.single_line = @ + 1]
        ELSE IF bounded_start = 0 THEN stats
        ELSE [stats EXCEPT
                !.mask = [i \in 1..Len(lines) |-> @[i] \/ i \in covered],
                !.blank_lines = @ + Cardinality({i \in covered : is_blank(lines[i])}),
                !.multi_line = @ + Cardinality({i \in covered : ~is_blank(lines[i])})]

RECURSIVE detect_docstrings_from(_, _, _)
detect_docstrings_from(stats, lines, logicals) ==
    IF logicals = <<>> THEN stats
    ELSE detect_docstrings_from(mark_docstring(stats, lines, Head(logicals)), lines,
                                Tail(logicals))

detect_docstrings(summary, lines) ==
    detect_docstrings_from(NoDocstrings(lines), lines, summary.logical_lines)

saturating_sub(a, b) == IF b > a THEN 0 ELSE a - b

\* raw.rs analyze_source on a text the lexer accepts
raw_analyze_source(source) ==
    LET line_table == LineTable(source)
        lex_summary == tokenize_source(source)
        docstring_stats == detect_docstrings(lex_summary, line_table)
        unmasked == {i \in 1..Len(line_table) : ~docstring_stats.mask[i]}
        blank == docstring_stats.blank_lines
                 + Cardinality({i \in unmasked : is_blank(line_table[i])})
        single_comments ==
            docstring_stats.single_line
            + Cardinality({i \in unmasked :
                             /\ trim_start(line_table[i]) # EmptyStr
                             /\ Head(trim_start(line_table[i])) = Hash})
        loc == Len(line_table)
    IN  IF line_table = <<>> THEN RawOf(0, 0, 0, 0, 0, 0, 0)
        ELSE RawOf(loc, lex_summary.lloc,
                   saturating_sub(loc, blank + docstring_stats.multi_line + single_comments),
                   lex_summary.comment_count, docstring_stats.multi_line, blank,
                   single_comments)

RawAnalyze == AnalyserReturn("raw_analyze_source", raw_analyze_source(last.arg))

InitRaw == \E source \in SeqsUpTo(RawItems, MaxItems) :
              AnalyserInit("raw_analyze_source", source)

SpecRaw == InitRaw /\ [][RawAnalyze]_vars

\* C17: the raw counts of a source satisfy
\* sloc + blank + multi + single_comments = loc, none of the seven counts is
\* negative, and all are zero for the empty source.
C17_RawCountsAddUp ==
    Returned("raw_analyze_source") =>
        /\ last.ret.sloc + last.ret.blank + last.ret.multi + last.ret.single_comments
              = last.ret.loc
        /\ \A f \in RawFields : last.ret[f] >= 0
        /\ last.arg = <<>> => \A f \in RawFields : last.ret[f] = 0

----------------------------------------------------------------------------
(* Operator selection: session objects constructed with any operator list *)

KnownOperators == <<"raw", "cyclomatic", "halstead", "maintainability">>

\* the known operators of S in a fixed order
OperatorSeq(S) ==
    LET Chosen(name) == name \in S
    IN  SelectSeq(KnownOperators, Chosen)

OperatorLists ==
    {OperatorSeq(S) : S \in SUBSET Range(KnownOperators)}
    \cup {OperatorSeq(S) \o <<"unknown">> : S \in SUBSET Range(KnownOperators)}

OperatorInputs ==
    {Input(<<PathSA, PathA>>, TreeFull, Rev1), Input(<<PathSB>>, TreeBadSB, Rev2)}

\* WilyIndex(output_path, operators) for both session objects
InitOperators ==
    \E operators \in OperatorLists :
        /\ disk = NoFile
        /\ idx = [o \in Objects |-> WilyIndex_new(operators)]
        /\ active = "none"
        /\ calls = 0
        /\ sessions = 0
        /\ last = NoOp
        /\ emitted = <<>>
        /\ pc = "idle"
        /\ inflight = NoFlush

NextOperators ==
    \E o \in Objects :
        \/ sessions < MaxSessions /\ Enter(o)
        \/ \E inp \in OperatorInputs : calls < MaxRevCalls /\ AnalyzeRevision(o, inp)
        \/ Exit(o)

SpecOperators == InitOperators /\ [][NextOperators]_vars

\* the row sequences analyze_revision can produce for the arguments and tree
\* of the last call when the session's operator list is `operators`
PossibleRowsWith(operators) ==
    LET paths == last.arg.paths
        relative_paths == [i \in 1..Len(paths) |->
                             relative_path(paths[i], last.arg.base_path)]
        directories == directories_of(relative_paths)
        results == file_results(paths, last.arg.base_path, last.arg.tree, operators)
        dirs == collect_dirs(EmptyDirs, results)
    IN  {[i \in 1..Len(revision_emission(results, order, mode, last.arg.rev)) |->
            tracked_row(revision_emission(results, order, mode, last.arg.rev)[i])] :
         order \in Perms(directories), mode \in mode_choices(dirs, directories)}

\* C18: on a file row the raw fields, complexity, the Halstead fields and
\* mi/rank are set exactly when "raw", "cyclomatic", "halstead" and
\* "maintainability" are in the session's operator list; the rows are rows the
\* call can emit with the other names removed from the list.
C18_OperatorSelection ==
    Analyzed =>
        LET operators == idx[last.obj].operators
            Selected(name) == name \in Range(operators)
            Known(name) == name \in Range(KnownOperators)
        IN  /\ \A r \in Range(RowsOfType({"file"})) :
                  /\ \A f \in RawFields : (r[f] # None) <=> Selected("raw")
                  /\ (r.complexity # None) <=> Selected("cyclomatic")
                  /\ \A f \in HalsteadFields : (r[f] # None) <=> Selected("halstead")
                  /\ \A f \in {"mi", "rank"} : (r[f] # None) <=> Selected("maintainability")
            /\ last.rows \in PossibleRowsWith(SelectSeq(operators, Known))

\* a call of a session whose list holds an unknown name, halstead and
\* maintainability but neither raw nor cyclomatic, emitting a file row
C18_Witness ==
    /\ Analyzed
    /\ Range(idx[last.obj].operators) = {"halstead", "maintainability", "unknown"}
    /\ \E r \in Range(RowsOfType({"file"})) :
          r.volume # None /\ r.mi # None /\ r.loc = None /\ r.complexity = None

-----------------------------------------------------------------------------
(* The git archiver: get_revisions and the iterator it returns *)

MaxRevisions == 4

\* A repository of five commits: 1 is the root, 2 its child, 3 and 4 are both
\* children of 2, and 5 merges 3 and 4.
Commits == 1..5

commit_parents == <<{}, {1}, {2}, {2}, {3, 4}>>

FileA == <<"a", ".", "p", "y">>
FileB == <<"b", ".", "p", "y">>
FileC == <<"c", ".", "i", "p", "y", "n", "b">>
FileN == <<"n", ".", "t", "x", "t">>
RepoFiles == {FileA, FileB, FileC, FileN}

\* The tree of each commit: the blob of every file, 0 when the file is absent.
TreeOf(a, b, c, n) ==
    [f \in RepoFiles |-> IF f = FileA THEN a ELSE IF f = FileB THEN b
                         ELSE IF f = FileC THEN c ELSE n]

commit_tree == <<TreeOf(1, 0, 0, 1), TreeOf(2, 1, 0, 1), TreeOf(2, 1, 1, 2),
                 TreeOf(0, 1, 0, 1), TreeOf(0, 2, 1, 2)>>

LocalBranches == [main |-> 5, dev |-> 4]
RepoHead == 5

\* The branch arguments: none, a local branch, the id of commit 3, and a name
\* that is neither a branch nor an object id.
BranchArgs == {None, Some("main"), Some("dev"), Some("3"), Some("nope")}

Oid_from_str(name) == IF name = "3" THEN Some(3) ELSE None

ends_with(s, suffix) ==
    Len(suffix) <= Len(s) /\ SubSeq(s, Len(s) - Len(suffix) + 1, Len(s)) = suffix

is_python_filename(filename, include_ipynb) ==
    \/ ends_with(filename, <<".", "p", "y">>)
    \/ include_ipynb /\ ends_with(filename, <<".", "i", "p", "y", "n", "b">>)

\* Byte order of the first component of the names; the names of RepoFiles
\* differ in their first byte.
ByteOf(c) == IF c = "a" THEN 97 ELSE IF c = "b" THEN 98 ELSE IF c = "c" THEN 99 ELSE 110

RECURSIVE sorted_paths(_)
sorted_paths(S) ==
    IF S = {} THEN <<>>
    ELSE LET f == CHOOSE x \in S : \A y \in S : ByteOf(x[1]) <= ByteOf(y[1])
         IN  <<f>> \o sorted_paths(S \ {f})

get_tracked_files(commit, include_ipynb) ==
    sorted_paths({f \in RepoFiles : /\ commit_tree[commit][f] # 0
                                    /\ is_python_filename(f, include_ipynb)})

\* The deltas of diff_tree_to_tree(old, new) come in path order; without
\* similarity detection they are additions, deletions and modifications.
whatchanged(new_commit, old_commit, include_ipynb) ==
    LET new_tree == commit_tree[new_commit]
        old_tree == commit_tree[old_commit]
        Python == {f \in RepoFiles : is_python_filename(f, include_ipynb)}
    IN  [added    |-> sorted_paths({f \in Python : old_tree[f] = 0 /\ new_tree[f] # 0}),
         modified |-> sorted_paths({f \in Python : /\ old_tree[f] # 0 /\ new_tree[f] # 0
                                                   /\ old_tree[f] # new_tree[f]}),
         deleted  |-> sorted_paths({f \in Python : old_tree[f] # 0 /\ new_tree[f] = 0})]

\* The walk of a Revwalk whose sorting was never set: the pending commit with
\* the latest commit time comes next, and its parents become pending when it
\* is taken.
RECURSIVE revwalk(_, _, _)
revwalk(pending, seen, time) ==
    IF pending = {} THEN <<>>
    ELSE LET c == CHOOSE x \in pending : \A y \in pending : time[y] <= time[x]
             parents == commit_parents[c] \ seen
         IN  <<c>> \o revwalk((pending \ {c}) \cup parents, seen \cup parents, time)

reverse(s) == [i \in 1..Len(s) |-> s[Len(s) + 1 - i]]

resolve_start(branch) ==
    IF branch # None
    THEN IF branch[1] \in DOMAIN LocalBranches THEN Some(LocalBranches[branch[1]])
         ELSE Oid_from_str(branch[1])
    ELSE Some(RepoHead)

get_revisions(time, max_revisions, branch, include_ipynb) ==
    LET start_oid == resolve_start(branch)
    IN  IF start_oid = None THEN Err
        ELSE LET walk == revwalk({start_oid[1]}, {start_oid[1]}, time)
                 commit_oids == SubSeq(walk, 1, IF Len(walk) < max_revisions
                                                THEN Len(walk) ELSE max_revisions)
             IN  Ok([commit_oids |-> reverse(commit_oids), index |-> 0,
                     include_ipynb |-> include_ipynb])

RevisionInfo_from_commit(commit, time, changes) ==
    [key |-> commit, date |-> time[commit], added_files |-> changes.added,
     modified_files |-> changes.modified, deleted_files |-> changes.deleted]

RevisionIterator_next(it, time) ==
    LET commit == it.commit_oids[it.index + 1]
    IN  IF it.index = 0
        THEN RevisionInfo_from_commit(commit, time,
                 [added |-> get_tracked_files(commit, it.include_ipynb),
                  modified |-> <<>>, deleted |-> <<>>])
        ELSE RevisionInfo_from_commit(commit, time,
                 whatchanged(commit, it.commit_oids[it.index], it.include_ipynb))

GitInputs ==
    {[time |-> time, max_revisions |-> n, branch |-> branch, include_ipynb |-> ipynb] :
        time \in Perms(Commits), n \in 0..MaxRevisions, branch \in BranchArgs,
        ipynb \in BOOLEAN}

InitGit == \E input \in GitInputs : AnalyserInit("get_revisions", input)

\* get_revisions(repo_path, max_revisions, branch, include_ipynb)
GetRevisions ==
    /\ last.op = "get_revisions"
    /\ LET it == get_revisions(last.arg.time, last.arg.max_revisions, last.arg.branch,
                               last.arg.include_ipynb)
       IN  last' = IF it.ok
                   THEN [last EXCEPT !.op = "RevisionIterator", !.ret = it.value,
                                     !.rows = <<>>]
                   ELSE [last EXCEPT !.op = "ValueError"]
    /\ UNCHANGED <<disk, idx, active, calls, sessions, emitted, pc, inflight>>

\* RevisionIterator.__next__ while a commit is left; at the end it returns
\* None and leaves the iterator as it is.
IteratorNext ==
    /\ last.op = "RevisionIterator"
    /\ last.ret.index < Len(last.ret.commit_oids)
    /\ last' = [last EXCEPT !.rows = Append(@, RevisionIterator_next(last.ret, last.arg.time)),
                            !.ret.index = @ + 1]
    /\ UNCHANGED <<disk, idx, active, calls, sessions, emitted, pc, inflight>>

NextGit == GetRevisions \/ IteratorNext

SpecGit == InitGit /\ [][NextGit]_vars

RECURSIVE ancestors(_)
ancestors(c) == commit_parents[c] \cup UNION {ancestors(p) : p \in commit_parents[c]}

\* C19: the iterator yields at most max_revisions commits, no commit twice and
\* no commit after one of its descendants; the first revision lists the tracked
\* source files of its commit as added with nothing modified or deleted, and
\* every later revision lists the difference between the tree of the commit
\* yielded just before it and its own.
C19_RevisionsOldestFirst ==
    last.op = "RevisionIterator" =>
        LET yielded == last.rows
            n == Len(yielded)
        IN  /\ n <= last.arg.max_revisions
            /\ \A i, j \in 1..n : i < j =>
                  /\ yielded[i].key # yielded[j].key
                  /\ yielded[j].key \notin ancestors(yielded[i].key)
            /\ n >= 1 =>
                  /\ yielded[1].added_files =
                        get_tracked_files(yielded[1].key, last.arg.include_ipynb)
                  /\ yielded[1].modified_files = <<>>
                  /\ yielded[1].deleted_files = <<>>
            /\ \A i \in 2..n :
                  LET changes == whatchanged(yielded[i].key, yielded[i - 1].key,
                                             last.arg.include_ipynb)
                  IN  /\ yielded[i].added_files = changes.added
                      /\ yielded[i].modified_files = changes.modified
                      /\ yielded[i].deleted_files = changes.deleted

\* C20: the rows a call emits come in group order, file rows, then function
\* rows, then class rows, then directory and root rows, and they are buffered
\* behind the rows of every earlier call of the session.
C20_RowGroupOrder ==
    Analyzed =>
        LET rows == last.rows
            buffered == idx[last.obj].state.new_rows
            Group(r) == IF r.path_type = "file" THEN 0
                        ELSE IF r.path_type = "function" THEN 1
                        ELSE IF r.path_type = "class" THEN 2 ELSE 3
        IN  /\ \A i, j \in 1..Len(rows) : i < j => Group(rows[i]) <= Group(rows[j])
            /\ Len(rows) <= Len(buffered)
            /\ SubSeq(buffered, Len(buffered) - Len(rows) + 1, Len(buffered)) = rows

\* the position of a rank in lexical order
RankOrd(r) == IF r = "A" THEN 1 ELSE IF r = "B" THEN 2 ELSE 3

\* C21: the rank of a directory or root row is the most frequent rank among
\* the file rows below it, and among several most frequent ranks the lexically
\* smallest one.
C21_RankModeLexicalTie ==
    Analyzed =>
        \A d \in Range(RowsOfType({"directory", "root"})) :
            LET files == Descendants(d.path)
                ranked == {i \in 1..Len(files) : files[i].rank # None}
                Times(r) == Cardinality({i \in ranked : files[i].rank = Some(r)})
                modes == {r \in Ranks : Times(r) > 0 /\ \A q \in Ranks : Times(q) <= Times(r)}
            IN  (d.rank # None /\ modes # {}) =>
                    /\ d.rank[1] \in modes
                    /\ \A r \in modes : RankOrd(d.rank[1]) <= RankOrd(r)

-----------------------------------------------------------------------------
(* The cyclomatic visitor over a syntax tree *)

MaxModule == 2

\* Expressions: a name, a boolean operation, a conditional expression and a
\* comprehension (list, set, dict or generator) with its for-clauses.
NameOf(id) == [kind |-> "Name", id |-> id]
Name == NameOf("x")
Number(value) == [kind |-> "NumberLiteral", value |-> value]
BoolOpOf(op, values) == [kind |-> "BoolOp", op |-> op, values |-> values]
BoolOp(values) == BoolOpOf("And", values)
BinOp(left, op, right) == [kind |-> "BinOp", left |-> left, op |-> op, right |-> right]
UnaryOp(op, operand) == [kind |-> "UnaryOp", op |-> op, operand |-> operand]
Compare(left, ops, comparators) ==
    [kind |-> "Compare", left |-> left, ops |-> ops, comparators |-> comparators]
IfExp(test, body, orelse) == [kind |-> "If", test |-> test, body |-> body, orelse |-> orelse]
Comprehension(iter, ifs) == [iter |-> iter, ifs |-> ifs]
Comp(kind, elt, generators) == [kind |-> kind, elt |-> elt, generators |-> generators]
CompKinds == {"ListComp", "SetComp", "DictComp", "Generator"}

\* Statements
Pass == [kind |-> "Pass"]
ExprStmt(value) == [kind |-> "Expr", value |-> value]
AssertStmt(test) == [kind |-> "Assert", test |-> test]
Clause(test, body) == [test |-> test, body |-> body]
If(test, body, elif_else_clauses) ==
    [kind |-> "If", test |-> test, body |-> body, elif_else_clauses |-> elif_else_clauses]
For(iter, body, orelse) == [kind |-> "For", iter |-> iter, body |-> body, orelse |-> orelse]
While(test, body, orelse) == [kind |-> "While", test |-> test, body |-> body, orelse |-> orelse]
Try(body, handlers, orelse, finalbody) ==
    [kind |-> "Try", body |-> body, handlers |-> handlers, orelse |-> orelse,
     finalbody |-> finalbody]
\* a case: whether its pattern is MatchAs with no inner pattern, and its body
MatchCase(wildcard, body) == [wildcard |-> wildcard, body |-> body]
Match(subject, cases) == [kind |-> "Match", subject |-> subject, cases |-> cases]
AugAssign(target, op, value) ==
    [kind |-> "AugAssign", target |-> target, op |-> op, value |-> value]
FunctionDef(name, body) == [kind |-> "FunctionDef", name |-> name, body |-> body]
ClassDef(name, body) == [kind |-> "ClassDef", name |-> name, body |-> body]

\* What visitor::walk_expr and visitor::walk_stmt hand on to the visitor: the
\* child expressions of an expression (the for-clauses of a comprehension go
\* through visit_comprehension), the expressions of a statement, and the
\* statement lists directly inside a statement.
ExprChildren(e) ==
    IF e.kind = "BoolOp" THEN e.values
    ELSE IF e.kind = "If" THEN <<e.test, e.body, e.orelse>>
    ELSE IF e.kind = "BinOp" THEN <<e.left, e.right>>
    ELSE IF e.kind = "UnaryOp" THEN <<e.operand>>
    ELSE IF e.kind = "Compare" THEN <<e.left>> \o e.comparators
    ELSE IF e.kind \in CompKinds THEN <<e.elt>>
    ELSE <<>>

\* visitor::walk_comprehension
ComprehensionChildren(c) == <<c.iter>> \o c.ifs

StmtExprs(s) ==
    IF s.kind = "Expr" THEN <<s.value>>
    ELSE IF s.kind = "Assert" THEN <<s.test>>
    ELSE IF s.kind = "If"
        THEN LET elifs == SelectSeq(s.elif_else_clauses, LAMBDA c : c.test # None)
             IN  <<s.test>> \o [i \in 1..Len(elifs) |-> elifs[i].test[1]]
    ELSE IF s.kind = "For" THEN <<s.iter>>
    ELSE IF s.kind = "While" THEN <<s.test>>
    ELSE IF s.kind = "Match" THEN <<s.subject>>
    ELSE IF s.kind = "AugAssign" THEN <<s.target, s.value>>
    ELSE <<>>

SubBodies(s) ==
    IF s.kind = "If"
        THEN <<s.body>> \o [i \in 1..Len(s.elif_else_clauses) |-> s.elif_else_clauses[i].body]
    ELSE IF s.kind \in {"For", "While"} THEN <<s.body, s.orelse>>
    ELSE IF s.kind = "Try" THEN <<s.body>> \o s.handlers \o <<s.orelse, s.finalbody>>
    ELSE IF s.kind = "Match" THEN [i \in 1..Len(s.cases) |-> s.cases[i].body]
    ELSE IF s.kind \in {"FunctionDef", "ClassDef"} THEN <<s.body>>
    ELSE <<>>

\* Operator arguments are evaluated on demand. Each step of a loop evaluates the
\* visitor it is handed before it goes on, which keeps the evaluation shallow.
Evaluated(v) == DOMAIN v # {}

ComplexityVisitor_new(is_method, classname, no_assert) ==
    [complexity |-> 1, is_method |-> is_method, classname |-> classname,
     no_assert |-> no_assert, functions |-> <<>>, classes |-> <<>>]

saturating_sub_1(n) == IF n = 0 THEN 0 ELSE n - 1

RECURSIVE ComplexityVisitor_visit_stmt(_, _)
RECURSIVE ComplexityVisitor_visit_body(_, _)
RECURSIVE ComplexityVisitor_visit_expr(_, _)
RECURSIVE ComplexityVisitor_visit_exprs(_, _)
RECURSIVE ComplexityVisitor_visit_function(_, _)
RECURSIVE ComplexityVisitor_visit_class(_, _)
RECURSIVE walk_stmt(_, _)
RECURSIVE walk_expr(_, _)
RECURSIVE walk_bodies(_, _)

\* visit_comprehension is overridden with an empty body
visit_comprehension(v, comprehension) == v

RECURSIVE visit_comprehensions(_, _)
visit_comprehensions(v, generators) ==
    IF generators = <<>> \/ ~Evaluated(v) THEN v
    ELSE visit_comprehensions(visit_comprehension(v, Head(generators)), Tail(generators))

generators_complexity(generators) ==
    SumInts([i \in 1..Len(generators) |-> 1 + Len(generators[i].ifs)])

ComplexityVisitor_visit_exprs(v, exprs) ==
    IF exprs = <<>> \/ ~Evaluated(v) THEN v
    ELSE ComplexityVisitor_visit_exprs(ComplexityVisitor_visit_expr(v, Head(exprs)), Tail(exprs))

\* visitor::walk_expr: the for-clauses of a comprehension go through
\* visit_comprehension, then the children are visited
walk_expr(v, expr) ==
    LET after == IF expr.kind \in CompKinds
                    THEN visit_comprehensions(v, expr.generators) ELSE v
    IN  ComplexityVisitor_visit_exprs(after, ExprChildren(expr))

ComplexityVisitor_visit_expr(v, expr) ==
    IF expr.kind = "If" THEN walk_expr([v EXCEPT !.complexity = @ + 1], expr)
    ELSE IF expr.kind = "BoolOp"
        THEN walk_expr([v EXCEPT !.complexity = @ + saturating_sub_1(Len(expr.values))], expr)
    ELSE IF expr.kind \in CompKinds
        THEN walk_expr([v EXCEPT !.complexity = @ + generators_complexity(expr.generators)],
                       expr)
    ELSE walk_expr(v, expr)

ComplexityVisitor_visit_body(v, stmts) ==
    IF stmts = <<>> \/ ~Evaluated(v) THEN v
    ELSE ComplexityVisitor_visit_body(ComplexityVisitor_visit_stmt(v, Head(stmts)), Tail(stmts))

walk_bodies(v, bodies) ==
    IF bodies = <<>> \/ ~Evaluated(v) THEN v
    ELSE walk_bodies(ComplexityVisitor_visit_body(v, Head(bodies)), Tail(bodies))

\* visitor::walk_stmt: the expressions and the statement lists of a statement
walk_stmt(v, stmt) ==
    walk_bodies(ComplexityVisitor_visit_exprs(v, StmtExprs(stmt)), SubBodies(stmt))

\* one visitor per statement of the body: its functions become closures, its
\* complexity is added, its classes are dropped
ComplexityVisitor_visit_function(v, node) ==
    LET Visited(stmt) ==
            ComplexityVisitor_visit_stmt(
                [ComplexityVisitor_new(FALSE, None, v.no_assert) EXCEPT !.complexity = 0], stmt)
        visitors == [i \in 1..Len(node.body) |-> Visited(node.body[i])]
        func == [name |-> node.name, is_method |-> v.is_method, classname |-> v.classname,
                 complexity |-> 1 + SumInts([i \in 1..Len(visitors) |-> visitors[i].complexity]),
                 closures |-> Flatten([i \in 1..Len(visitors) |-> visitors[i].functions])]
    IN  [v EXCEPT !.functions = Append(@, func)]

ComplexityVisitor_visit_class(v, node) ==
    LET Visited(stmt) ==
            ComplexityVisitor_visit_stmt(
                [ComplexityVisitor_new(TRUE, Some(node.name), v.no_assert)
                    EXCEPT !.complexity = 0], stmt)
        visitors == [i \in 1..Len(node.body) |-> Visited(node.body[i])]
        summary == [i \in 1..Len(visitors) |->
                      ClassStmt(visitors[i].complexity,
                                [j \in 1..Len(visitors[i].functions) |->
                                    visitors[i].functions[j].complexity])]
        cls == [name |-> node.name,
                methods |-> Flatten([i \in 1..Len(visitors) |-> visitors[i].functions]),
                inner_classes |-> Flatten([i \in 1..Len(visitors) |-> visitors[i].classes]),
                real_complexity |-> class_body_complexity(summary, 1)]
    IN  [v EXCEPT !.classes = Append(@, cls)]

ComplexityVisitor_visit_stmt(v, stmt) ==
    IF stmt.kind = "FunctionDef" THEN ComplexityVisitor_visit_function(v, stmt)
    ELSE IF stmt.kind = "ClassDef" THEN ComplexityVisitor_visit_class(v, stmt)
    ELSE IF stmt.kind = "If"
        THEN LET elif_count == Cardinality({i \in 1..Len(stmt.elif_else_clauses) :
                                               stmt.elif_else_clauses[i].test # None})
             IN  walk_stmt([v EXCEPT !.complexity = @ + 1 + elif_count], stmt)
    ELSE IF stmt.kind \in {"For", "While"}
        THEN walk_stmt([v EXCEPT !.complexity = @ + 1 + (IF stmt.orelse = <<>> THEN 0 ELSE 1)],
                       stmt)
    ELSE IF stmt.kind = "Try"
        THEN walk_stmt([v EXCEPT !.complexity = @ + Len(stmt.handlers)
                                                  + (IF stmt.orelse = <<>> THEN 0 ELSE 1)], stmt)
    ELSE IF stmt.kind = "Match"
        THEN LET has_wildcard == \E i \in 1..Len(stmt.cases) : stmt.cases[i].wildcard
                 case_count == Len(stmt.cases)
             IN  walk_stmt([v EXCEPT !.complexity =
                                @ + (IF has_wildcard THEN saturating_sub_1(case_count)
                                     ELSE case_count)], stmt)
    ELSE IF stmt.kind = "Assert"
        THEN walk_stmt([v EXCEPT !.complexity = @ + (IF v.no_assert THEN 0 ELSE 1)], stmt)
    ELSE walk_stmt(v, stmt)

\* analyze_source: the flat function list and the classes of a parsed module
cyclomatic_analyze_source(suite) ==
    LET visitor == ComplexityVisitor_visit_body(ComplexityVisitor_new(FALSE, None, TRUE), suite)
        all_functions ==
            visitor.functions
            \o Flatten([i \in 1..Len(visitor.classes) |-> visitor.classes[i].methods])
    IN  [functions |-> all_functions, classes |-> visitor.classes]

\* Sample statements of a module
NameH == <<"h">>
NameK == <<"k">>
NameN == <<"n">>
NameP == <<"p">>
NameQ == <<"q">>
NameD == <<"D">>
NameE == <<"E">>
NameB == <<"B">>
NameR == <<"r">>
NameS == <<"s">>

Plain == ExprStmt(Name)
IfPlain == If(Name, <<Pass>>, <<>>)

\* def f(): if ...: pass
FunctionOneIf == FunctionDef(NameF, <<IfPlain>>)

\* def g(): if/elif/else around a for-else whose body tests `a and b and c`
FunctionNested ==
    FunctionDef(NameG,
        <<If(Name,
             <<For(Name, <<ExprStmt(BoolOp(<<Name, Name, Name>>))>>, <<Pass>>)>>,
             <<Clause(Some(Name), <<Pass>>), Clause(None, <<Pass>>)>>)>>)

\* def h(): with a nested def k() that holds a while loop, then x if y else z
FunctionWithClosure ==
    FunctionDef(NameH,
        <<FunctionDef(NameK, <<While(Name, <<Pass>>, <<>>)>>),
          ExprStmt(IfExp(Name, Name, Name))>>)

\* def n(): [x for x in xs if a and b]
FunctionCompFilter ==
    FunctionDef(NameN,
        <<ExprStmt(Comp("ListComp", Name,
                        <<Comprehension(Name, <<BoolOp(<<Name, Name>>)>>)>>))>>)

\* def p(): try with two handlers and an else, a match with a wildcard case,
\* an assert, and a generator with two for-clauses
FunctionTryMatch ==
    FunctionDef(NameP,
        <<Try(<<Pass>>, <<<<Pass>>, <<IfPlain>>>>, <<Pass>>, <<>>),
          Match(Name, <<MatchCase(FALSE, <<Pass>>), MatchCase(TRUE, <<Pass>>)>>),
          AssertStmt(Name),
          ExprStmt(Comp("Generator", Name,
                        <<Comprehension(Name, <<>>), Comprehension(Name, <<Name>>)>>))>>)

\* class C: def m(self): if ...: for ...: pass
ClassOneMethod ==
    ClassDef(NameC, <<FunctionDef(NameM, <<If(Name, <<For(Name, <<Pass>>, <<>>)>>, <<>>)>>)>>)

\* class E: an if in the class body that defines q(), and a plain method s()
ClassTwoMethods ==
    ClassDef(NameE,
        <<If(Name, <<FunctionDef(NameQ, <<IfPlain, IfPlain>>)>>, <<>>),
          FunctionDef(NameS, <<IfPlain>>)>>)

\* class B: class D: def r(self): if ...: pass
ClassWithInner ==
    ClassDef(NameB, <<ClassDef(NameD, <<FunctionDef(NameR, <<IfPlain>>)>>), Plain>>)

TopStmts ==
    {Plain, IfPlain, FunctionOneIf, FunctionNested, FunctionWithClosure, FunctionCompFilter,
     FunctionTryMatch, ClassOneMethod, ClassTwoMethods, ClassWithInner}

\* the cyclomatic branch of the per-file task: the analysis and its total
CyclomaticAnalyze ==
    LET result == cyclomatic_analyze_source(last.arg)
    IN  AnalyserReturn("cyclomatic_analyze_source",
            [functions |-> result.functions, classes |-> result.classes,
             total |-> cyclomatic_total_of(result)])

InitCyclomatic ==
    \E suite \in SeqsUpTo(TopStmts, MaxModule) : AnalyserInit("cyclomatic_analyze_source", suite)

SpecCyclomatic == InitCyclomatic /\ [][CyclomaticAnalyze]_vars

\* The contribution table of the complexity rules, summed over an expression
\* or a statement list at any depth, not entering function or class bodies.
RECURSIVE TableExpr(_)
RECURSIVE TableExprs(_)
RECURSIVE TableStmt(_)
RECURSIVE TableBody(_)
RECURSIVE TableBodies(_)

TableExprs(exprs) == IF exprs = <<>> THEN 0 ELSE TableExpr(Head(exprs)) + TableExprs(Tail(exprs))

TableExpr(e) ==
    IF e.kind = "BoolOp" THEN Len(e.values) - 1 + TableExprs(e.values)
    ELSE IF e.kind = "If" THEN 1 + TableExprs(<<e.test, e.body, e.orelse>>)
    ELSE IF e.kind \in CompKinds
        THEN SumInts([i \in 1..Len(e.generators) |->
                        1 + Len(e.generators[i].ifs) + TableExpr(e.generators[i].iter)
                        + TableExprs(e.generators[i].ifs)])
             + TableExpr(e.elt)
    ELSE 0

TableBody(stmts) == IF stmts = <<>> THEN 0 ELSE TableStmt(Head(stmts)) + TableBody(Tail(stmts))

TableBodies(bodies) ==
    IF bodies = <<>> THEN 0 ELSE TableBody(Head(bodies)) + TableBodies(Tail(bodies))

TableStmt(s) ==
    IF s.kind = "Expr" THEN TableExpr(s.value)
    ELSE IF s.kind = "Assert" THEN TableExpr(s.test)
    ELSE IF s.kind = "If"
        THEN LET elifs == SelectSeq(s.elif_else_clauses, LAMBDA c : c.test # None)
             IN  1 + Len(elifs) + TableExpr(s.test)
                 + TableExprs([i \in 1..Len(elifs) |-> elifs[i].test[1]])
                 + TableBody(s.body)
                 + TableBodies([i \in 1..Len(s.elif_else_clauses) |->
                                  s.elif_else_clauses[i].body])
    ELSE IF s.kind = "For"
        THEN 1 + (IF s.orelse # <<>> THEN 1 ELSE 0) + TableExpr(s.iter)
             + TableBodies(<<s.body, s.orelse>>)
    ELSE IF s.kind = "While"
        THEN 1 + (IF s.orelse # <<>> THEN 1 ELSE 0) + TableExpr(s.test)
             + TableBodies(<<s.body, s.orelse>>)
    ELSE IF s.kind = "Try"
        THEN Len(s.handlers) + (IF s.orelse # <<>> THEN 1 ELSE 0)
             + TableBodies(<<s.body>> \o s.handlers \o <<s.orelse, s.finalbody>>)
    ELSE IF s.kind = "Match"
        THEN Len(s.cases) - (IF \E i \in 1..Len(s.cases) : s.cases[i].wildcard THEN 1 ELSE 0)
             + TableExpr(s.subject)
             + TableBodies([i \in 1..Len(s.cases) |-> s.cases[i].body])
    ELSE 0

\* the definitions of the given kind a statement list holds; `through` names
\* the kinds of definition whose bodies are searched too
RECURSIVE DefsIn(_, _, _)
DefsIn(stmts, kind, through) ==
    UNION {(IF stmts[i].kind = kind THEN {stmts[i]} ELSE {})
           \cup (IF stmts[i].kind \in {"FunctionDef", "ClassDef"} \ through THEN {}
                 ELSE UNION {DefsIn(SubBodies(stmts[i])[j], kind, through) :
                                j \in 1..Len(SubBodies(stmts[i]))})
           : i \in 1..Len(stmts)}

\* every class the analysis recorded, inner classes included
RECURSIVE RecordedClasses(_)
RecordedClasses(classes) ==
    UNION {{classes[i]} \cup RecordedClasses(classes[i].inner_classes) : i \in 1..Len(classes)}

\* C22: the real_complexity of every recorded class is 1 plus the contributions
\* of the statements of its body, plus the complexity of each of its methods,
\* plus the real_complexity of each of its inner classes.
C22_ClassRealComplexity ==
    Returned("cyclomatic_analyze_source") =>
        /\ \A node \in DefsIn(last.arg, "ClassDef", {}) :
              \E cls \in RecordedClasses(last.ret.classes) : cls.name = node.name
        /\ \A cls \in RecordedClasses(last.ret.classes) :
              \A node \in DefsIn(last.arg, "ClassDef", {"FunctionDef", "ClassDef"}) :
                  node.name = cls.name =>
                      cls.real_complexity =
                          1 + TableBody(node.body)
                          + SumInts([i \in 1..Len(cls.methods) |-> cls.methods[i].complexity])
                          + SumInts([i \in 1..Len(cls.inner_classes) |->
                                        cls.inner_classes[i].real_complexity])

\* every function the analysis recorded: the flat list, the methods of the
\* classes and of their inner classes, and the closures of all of them
RECURSIVE WithClosures(_)
WithClosures(functions) ==
    UNION {{functions[i]} \cup WithClosures(functions[i].closures) : i \in 1..Len(functions)}

RecordedFunctions ==
    WithClosures(last.ret.functions)
    \cup UNION {WithClosures(cls.methods) : cls \in RecordedClasses(last.ret.classes)}

\* C23: the complexity of every function or method is 1 plus the table's
\* contributions over its body at any depth, the bodies of nested functions
\* left out; a nested function is recorded among the closures of the function
\* around it.
C23_FunctionComplexity ==
    Returned("cyclomatic_analyze_source") =>
        \A node \in DefsIn(last.arg, "FunctionDef", {"FunctionDef", "ClassDef"}) :
            /\ \E f \in RecordedFunctions : f.name = node.name
            /\ \A f \in RecordedFunctions :
                  f.name = node.name =>
                      /\ f.complexity = 1 + TableBody(node.body)
                      /\ \A nested \in DefsIn(node.body, "FunctionDef", {}) :
                            \E i \in 1..Len(f.closures) : f.closures[i].name = nested.name

\* the number of entries of a list that satisfy Test
CountIn(list, Test(_)) == Cardinality({i \in 1..Len(list) : Test(list[i])})

\* C24: the function list of a file holds every function defined outside
\* functions and classes, and every method of every class exactly once, as a
\* method of its class; nested functions are not in the list; the file's
\* complexity is the sum of complexity over the list plus the sum of the
\* derived complexity over the file's classes.
C24_FlatFunctionList ==
    Returned("cyclomatic_analyze_source") =>
        LET flat == last.ret.functions
            classes == last.ret.classes
        IN  /\ \A node \in DefsIn(last.arg, "FunctionDef", {}) :
                  CountIn(flat, LAMBDA f : f.name = node.name /\ ~f.is_method) >= 1
            /\ \A cls \in DefsIn(last.arg, "ClassDef", {"ClassDef"}) :
                  \A node \in DefsIn(cls.body, "FunctionDef", {}) :
                      LET occurrences ==
                              Cardinality({i \in 1..Len(last.arg) :
                                  cls \in DefsIn(<<last.arg[i]>>, "ClassDef", {"ClassDef"})})
                      IN  /\ CountIn(flat, LAMBDA f : f.name = node.name) = occurrences
                          /\ \A i \in 1..Len(flat) :
                                flat[i].name = node.name =>
                                    flat[i].is_method /\ flat[i].classname = Some(cls.name)
            /\ \A outer \in DefsIn(last.arg, "FunctionDef", {"ClassDef"}) :
                  \A nested \in DefsIn(outer.body, "FunctionDef", {"FunctionDef"}) :
                      CountIn(flat, LAMBDA f : f.name = nested.name) = 0
            /\ last.ret.total =
                  SumInts([i \in 1..Len(flat) |-> flat[i].complexity])
                  + SumInts([i \in 1..Len(classes) |-> ClassComplexity_complexity(classes[i])])
            /\ flat = <<>> /\ classes = <<>> => last.ret.total = 0

\* The count of one ';'-separated segment of a logical line: 2 when the
\* segment opens with a compound-statement keyword and code follows the colon
\* that ends its header (the colon outside every bracket), 1 for any other
\* segment with code, 0 for a segment without code.
SegmentCount(tokens) ==
    LET Code(kind) == kind \notin {"Comment", "Newline", "NonLogicalNewline", "Indent",
                                   "Dedent", "EndOfFile"}
        code == SelectSeq(tokens, Code)
        Depth(i) == Cardinality({j \in 1..i : code[j] \in {"Lpar", "Lsqb", "Lbrace"}})
                    - Cardinality({j \in 1..i : code[j] \in {"Rpar", "Rsqb", "Rbrace"}})
        headers == {i \in 1..Len(code) : code[i] = "Colon" /\ Depth(i) = 0}
    IN  IF code = <<>> THEN 0
        ELSE IF /\ code[1] \in {"If", "Elif", "Else", "For", "While", "Try", "Except",
                                "Finally", "With", "Def", "Class"}
                /\ headers # {}
                /\ MinOf(headers) < Len(code)
            THEN 2
        ELSE 1

RECURSIVE SegmentsCount(_)
SegmentsCount(tokens) ==
    LET semis == {i \in 1..Len(tokens) : tokens[i] = "Semi"}
    IN  IF semis = {} THEN SegmentCount(tokens)
        ELSE SegmentCount(SubSeq(tokens, 1, MinOf(semis) - 1))
             + SegmentsCount(SubSeq(tokens, MinOf(semis) + 1, Len(tokens)))

\* C27: lloc is the sum over the logical lines of the counts of their
\* ';'-separated segments, where a segment counts 2 only for a compound header
\* followed by code, 1 for other code and 0 without code.
C27_LogicalLines ==
    Returned("raw_analyze_source") =>
        LET lines == logical_lines(TokenStream(last.arg), <<>>, 1)
        IN  last.ret.lloc = SumInts([i \in 1..Len(lines) |-> SegmentsCount(lines[i].tokens)])

\* the analysed source of a file the last call read
ReadSource(p) == last.arg.tree[path_join(last.arg.base_path, p)]

\* C29: with "cyclomatic" and "halstead" both selected, a call emits one
\* function row per function or method of the function list of every file it
\* analysed, and each of these rows carries the Halstead fields of the function
\* of that name, for functions and methods alike.
C29_FunctionRowsCarryHalstead ==
    (/\ Analyzed
     /\ includes(idx[last.obj].operators, "cyclomatic")
     /\ includes(idx[last.obj].operators, "halstead")) =>
        LET read == last.arg.read
            Parsed(p) == ReadSource(p).parses
            parsed == SelectSeq(read, Parsed)
        IN  /\ Len(RowsOfType({"function"}))
                  = SumInts([i \in 1..Len(parsed) |-> Len(ReadSource(parsed[i]).functions)])
            /\ \A p \in Range(parsed) :
                  \A f \in Range(ReadSource(p).functions) :
                      /\ \E r \in Range(RowsOfType({"function"})) :
                            r.path = p \o <<Colon>> \o fullname(f)
                      /\ \A r \in Range(RowsOfType({"function"})) :
                            r.path = p \o <<Colon>> \o fullname(f) =>
                                \E h \in Range(ReadSource(p).halstead_functions) :
                                    /\ h.name = f.name
                                    /\ \A c \in HalsteadFields : r[c] = Some(h.metrics[c])

\* ---------------------------------------------------------------------------
\* Halstead visitor (backend halstead.rs)
\* ---------------------------------------------------------------------------

MaxHalsteadSuite == 2

\* HalsteadMetrics: the operator tags seen, the (context, operand) pairs seen,
\* and the two occurrence counts
HalsteadMetrics_default ==
    [operators_seen |-> {}, operands_seen |-> {}, operators |-> 0, operands |-> 0]

HalsteadMetrics_h1(m) == Cardinality(m.operators_seen)
HalsteadMetrics_h2(m) == Cardinality(m.operands_seen)
HalsteadMetrics_n1(m) == m.operators
HalsteadMetrics_n2(m) == m.operands
HalsteadMetrics_vocabulary(m) == HalsteadMetrics_h1(m) + HalsteadMetrics_h2(m)
HalsteadMetrics_length(m) == HalsteadMetrics_n1(m) + HalsteadMetrics_n2(m)

\* the mutant of merge: the sets are united, the occurrence counts are not added
HalsteadMetrics_merge_sets_only(m, other) ==
    [m EXCEPT !.operators_seen = @ \cup other.operators_seen,
              !.operands_seen = @ \cup other.operands_seen]

HalsteadMetrics_merge(m, other) ==
    [operators_seen |-> m.operators_seen \cup other.operators_seen,
     operands_seen |-> m.operands_seen \cup other.operands_seen,
     operators |-> m.operators + other.operators,
     operands |-> m.operands + other.operands]

HalsteadVisitor_new(context) ==
    [context |-> context, metrics |-> HalsteadMetrics_default, functions |-> <<>>]

HalsteadVisitor_add_operator(v, op_name) ==
    [v EXCEPT !.metrics.operators_seen = @ \cup {op_name},
              !.metrics.operators = @ + 1]

HalsteadVisitor_add_operand(v, operand) ==
    [v EXCEPT !.metrics.operands_seen = @ \cup {<<v.context, operand>>},
              !.metrics.operands = @ + 1]

RECURSIVE HalsteadVisitor_add_operands(_, _)
HalsteadVisitor_add_operands(v, operands) ==
    IF operands = <<>> \/ ~Evaluated(v) THEN v
    ELSE HalsteadVisitor_add_operands(HalsteadVisitor_add_operand(v, Head(operands)), Tail(operands))

RECURSIVE HalsteadVisitor_add_operators(_, _)
HalsteadVisitor_add_operators(v, op_names) ==
    IF op_names = <<>> \/ ~Evaluated(v) THEN v
    ELSE HalsteadVisitor_add_operators(HalsteadVisitor_add_operator(v, Head(op_names)), Tail(op_names))

\* The source text of an expression, as the sequence of its words: the text
\* between the start and the end of its range.
RECURSIVE source_text(_)
RECURSIVE source_texts(_, _)
source_text(e) ==
    IF e.kind = "Name" THEN <<e.id>>
    ELSE IF e.kind = "NumberLiteral" THEN <<e.value>>
    ELSE IF e.kind = "BoolOp"
        THEN source_texts(e.values, IF e.op = "And" THEN "and" ELSE "or")
    ELSE IF e.kind = "BinOp" THEN source_text(e.left) \o <<e.op>> \o source_text(e.right)
    ELSE IF e.kind = "UnaryOp" THEN <<e.op>> \o source_text(e.operand)
    ELSE IF e.kind = "Compare"
        THEN source_text(e.left)
             \o Flatten([i \in 1..Len(e.ops) |-> <<e.ops[i]>> \o source_text(e.comparators[i])])
    ELSE <<e.kind>>
source_texts(es, word) ==
    IF es = <<>> THEN <<>>
    ELSE IF Len(es) = 1 THEN source_text(es[1])
    ELSE source_text(Head(es)) \o <<word>> \o source_texts(Tail(es), word)

\* expr_to_operand: the name or the literal's value; any other expression is
\* written in its debug form
expr_to_operand(expr) ==
    IF expr.kind = "Name" THEN <<expr.id>>
    ELSE IF expr.kind = "NumberLiteral" THEN <<expr.value>>
    ELSE <<"{:?}">> \o source_text(expr)

\* expr_repr: the source text of the expression
expr_repr(expr) == source_text(expr)

binop_name(op) == op
unaryop_name(op) == op
boolop_name(op) == op
cmpop_name(op) == op

RECURSIVE HalsteadVisitor_visit_stmt(_, _)
RECURSIVE HalsteadVisitor_visit_body(_, _)
RECURSIVE HalsteadVisitor_visit_bodies(_, _)
RECURSIVE HalsteadVisitor_visit_expr(_, _)
RECURSIVE HalsteadVisitor_visit_exprs(_, _)
RECURSIVE HalsteadVisitor_visit_comprehensions(_, _)

\* visitor::walk_expr with the Halstead visitor
HalsteadVisitor_walk_expr(v, expr) ==
    LET after == IF expr.kind \in CompKinds
                    THEN HalsteadVisitor_visit_comprehensions(v, expr.generators) ELSE v
    IN  HalsteadVisitor_visit_exprs(after, ExprChildren(expr))

\* visitor::walk_stmt with the Halstead visitor
HalsteadVisitor_walk_stmt(v, stmt) ==
    HalsteadVisitor_visit_bodies(HalsteadVisitor_visit_exprs(v, StmtExprs(stmt)),
                                 SubBodies(stmt))

HalsteadVisitor_visit_comprehensions(v, generators) ==
    IF generators = <<>> \/ ~Evaluated(v) THEN v
    ELSE HalsteadVisitor_visit_comprehensions(
             HalsteadVisitor_visit_exprs(v, ComprehensionChildren(Head(generators))),
             Tail(generators))

HalsteadVisitor_visit_expr(v, expr) ==
    IF expr.kind = "BinOp"
        THEN HalsteadVisitor_walk_expr(
                 HalsteadVisitor_add_operands(
                     HalsteadVisitor_add_operator(v, binop_name(expr.op)),
                     <<expr_to_operand(expr.left), expr_to_operand(expr.right)>>),
                 expr)
    ELSE IF expr.kind = "UnaryOp"
        THEN HalsteadVisitor_walk_expr(
                 HalsteadVisitor_add_operand(
                     HalsteadVisitor_add_operator(v, unaryop_name(expr.op)),
                     expr_to_operand(expr.operand)),
                 expr)
    ELSE IF expr.kind = "BoolOp"
        THEN HalsteadVisitor_walk_expr(
                 HalsteadVisitor_add_operands(
                     HalsteadVisitor_add_operator(v, boolop_name(expr.op)),
                     [i \in 1..Len(expr.values) |-> expr_repr(expr.values[i])]),
                 expr)
    ELSE IF expr.kind = "Compare"
        THEN HalsteadVisitor_walk_expr(
                 HalsteadVisitor_add_operands(
                     HalsteadVisitor_add_operators(v,
                         [i \in 1..Len(expr.ops) |-> cmpop_name(expr.ops[i])]),
                     <<expr_to_operand(expr.left)>>
                         \o [i \in 1..Len(expr.comparators) |->
                                expr_to_operand(expr.comparators[i])]),
                 expr)
    ELSE HalsteadVisitor_walk_expr(v, expr)

HalsteadVisitor_visit_exprs(v, exprs) ==
    IF exprs = <<>> \/ ~Evaluated(v) THEN v
    ELSE HalsteadVisitor_visit_exprs(HalsteadVisitor_visit_expr(v, Head(exprs)), Tail(exprs))

\* The body is counted by a new visitor whose context is the function's own
\* name; its metrics are merged into this visitor's and recorded under that
\* name. The functions the new visitor recorded are not taken over.
HalsteadVisitor_visit_function(v, node) ==
    LET func_name == node.name
        func_visitor == HalsteadVisitor_visit_body(HalsteadVisitor_new(Some(func_name)),
                                                   node.body)
    IN  [v EXCEPT !.metrics = HalsteadMetrics_merge(@, func_visitor.metrics),
                  !.functions = Append(@, [name |-> func_name,
                                           metrics |-> func_visitor.metrics])]

\* the statements of a class body are visited by the same visitor
HalsteadVisitor_visit_class(v, node) == HalsteadVisitor_visit_body(v, node.body)

HalsteadVisitor_visit_stmt(v, stmt) ==
    IF stmt.kind = "FunctionDef" THEN HalsteadVisitor_visit_function(v, stmt)
    ELSE IF stmt.kind = "ClassDef" THEN HalsteadVisitor_visit_class(v, stmt)
    ELSE IF stmt.kind = "AugAssign"
        THEN HalsteadVisitor_walk_stmt(
                 HalsteadVisitor_add_operands(
                     HalsteadVisitor_add_operator(v, binop_name(stmt.op)),
                     <<expr_to_operand(stmt.target), expr_to_operand(stmt.value)>>),
                 stmt)
    ELSE HalsteadVisitor_walk_stmt(v, stmt)

HalsteadVisitor_visit_body(v, body) ==
    IF body = <<>> \/ ~Evaluated(v) THEN v
    ELSE HalsteadVisitor_visit_body(HalsteadVisitor_visit_stmt(v, Head(body)), Tail(body))

HalsteadVisitor_visit_bodies(v, bodies) ==
    IF bodies = <<>> \/ ~Evaluated(v) THEN v
    ELSE HalsteadVisitor_visit_bodies(HalsteadVisitor_visit_body(v, Head(bodies)), Tail(bodies))

\* analyze_source of halstead.rs on a parsed module: the file's metrics and
\* the recorded functions
halstead_analyze_source(suite) ==
    LET visitor == HalsteadVisitor_visit_body(HalsteadVisitor_new(None), suite)
    IN  [metrics |-> visitor.metrics, functions |-> visitor.functions]

\* the integer scalars derived from the metrics
HalsteadScalars(m) ==
    [h1 |-> HalsteadMetrics_h1(m), h2 |-> HalsteadMetrics_h2(m),
     n1 |-> HalsteadMetrics_n1(m), n2 |-> HalsteadMetrics_n2(m),
     vocabulary |-> HalsteadMetrics_vocabulary(m), length |-> HalsteadMetrics_length(m)]

\* Sample statements
OperandA == NameOf("a")
OperandB == NameOf("b")
OperandC == NameOf("c")
\* a and b and c
StmtBoolOp3 == ExprStmt(BoolOpOf("And", <<OperandA, OperandB, OperandC>>))
\* a + b
StmtAdd == ExprStmt(BinOp(OperandA, "Add", OperandB))
\* def f(): a + b
HalsteadFunctionF == FunctionDef(NameF, <<StmtAdd>>)
\* def g(): a + b
HalsteadFunctionG == FunctionDef(NameG, <<StmtAdd>>)
\* class C:  def m(self): a < b
HalsteadClassC ==
    ClassDef(NameC, <<FunctionDef(NameM, <<ExprStmt(Compare(OperandA, <<"Lt">>, <<OperandB>>))>>)>>)
\* class E:  a += 1;  def m(self): a < c < b
HalsteadClassE ==
    ClassDef(NameE, <<AugAssign(OperandA, "Add", Number("1")),
                      FunctionDef(NameM,
                          <<ExprStmt(Compare(OperandA, <<"Lt", "Lt">>, <<OperandC, OperandB>>))>>)>>)
\* def h(): a += 1;  def k(): not a
HalsteadFunctionNested ==
    FunctionDef(NameH, <<AugAssign(OperandA, "Add", Number("1")),
                         FunctionDef(NameK, <<ExprStmt(UnaryOp("Not", OperandA))>>)>>)
\* if a or b: (a and b) or c
StmtIfOr ==
    If(BoolOpOf("Or", <<OperandA, OperandB>>),
       <<ExprStmt(BoolOpOf("Or", <<BoolOpOf("And", <<OperandA, OperandB>>), OperandC>>))>>,
       <<>>)

HalsteadStmts ==
    {StmtBoolOp3, StmtAdd, HalsteadFunctionF, HalsteadFunctionG, HalsteadClassC,
     HalsteadClassE, HalsteadFunctionNested, StmtIfOr}

HalsteadAnalyze ==
    LET result == halstead_analyze_source(last.arg)
    IN  AnalyserReturn("halstead_analyze_source",
            [total |-> HalsteadScalars(result.metrics),
             operators_seen |-> result.metrics.operators_seen,
             operands_seen |-> result.metrics.operands_seen,
             functions |-> [i \in 1..Len(result.functions) |->
                               [name |-> result.functions[i].name,
                                metrics |-> HalsteadScalars(result.functions[i].metrics)]]])

InitHalstead ==
    \E suite \in SeqsUpTo(HalsteadStmts, MaxHalsteadSuite) :
        AnalyserInit("halstead_analyze_source", suite)

SpecHalstead == InitHalstead /\ [][HalsteadAnalyze]_vars

\* Every operator and operand occurrence of a statement list, at any depth,
\* each with its context: the name of the innermost enclosing function, or
\* None at module level and in class bodies outside any function.
OperatorAt(tag, ctx) == [operator |-> TRUE, text |-> <<tag>>, context |-> ctx]
OperandAt(text, ctx) == [operator |-> FALSE, text |-> text, context |-> ctx]

OwnOccurrences(node, ctx) ==
    IF node.kind \in {"BinOp", "AugAssign"}
        THEN LET first == IF node.kind = "BinOp" THEN node.left ELSE node.target
                 second == IF node.kind = "BinOp" THEN node.right ELSE node.value
             IN  <<OperatorAt(node.op, ctx), OperandAt(expr_to_operand(first), ctx),
                   OperandAt(expr_to_operand(second), ctx)>>
    ELSE IF node.kind = "UnaryOp"
        THEN <<OperatorAt(node.op, ctx), OperandAt(expr_to_operand(node.operand), ctx)>>
    ELSE IF node.kind = "BoolOp"
        THEN <<OperatorAt(node.op, ctx)>>
             \o [i \in 1..Len(node.values) |-> OperandAt(source_text(node.values[i]), ctx)]
    ELSE IF node.kind = "Compare"
        THEN [i \in 1..Len(node.ops) |-> OperatorAt(node.ops[i], ctx)]
             \o <<OperandAt(expr_to_operand(node.left), ctx)>>
             \o [i \in 1..Len(node.comparators) |->
                    OperandAt(expr_to_operand(node.comparators[i]), ctx)]
    ELSE <<>>

RECURSIVE OccurrencesExpr(_, _)
RECURSIVE OccurrencesExprs(_, _)
RECURSIVE OccurrencesStmt(_, _)
RECURSIVE OccurrencesBody(_, _)
RECURSIVE OccurrencesBodies(_, _)
OccurrencesExpr(e, ctx) ==
    OwnOccurrences(e, ctx)
    \o OccurrencesExprs(ExprChildren(e), ctx)
    \o (IF e.kind \in CompKinds
            THEN OccurrencesExprs(
                     Flatten([i \in 1..Len(e.generators) |->
                                 ComprehensionChildren(e.generators[i])]), ctx)
            ELSE <<>>)
OccurrencesExprs(es, ctx) ==
    IF es = <<>> THEN <<>>
    ELSE OccurrencesExpr(Head(es), ctx) \o OccurrencesExprs(Tail(es), ctx)
OccurrencesStmt(s, ctx) ==
    IF s.kind = "FunctionDef" THEN OccurrencesBody(s.body, Some(s.name))
    ELSE OwnOccurrences(s, ctx)
         \o OccurrencesExprs(StmtExprs(s), ctx)
         \o OccurrencesBodies(SubBodies(s), ctx)
OccurrencesBody(body, ctx) ==
    IF body = <<>> THEN <<>>
    ELSE OccurrencesStmt(Head(body), ctx) \o OccurrencesBody(Tail(body), ctx)
OccurrencesBodies(bodies, ctx) ==
    IF bodies = <<>> THEN <<>>
    ELSE OccurrencesBody(Head(bodies), ctx) \o OccurrencesBodies(Tail(bodies), ctx)

IsOperatorOccurrence(o) == o.operator
IsOperandOccurrence(o) == ~o.operator
IsModuleLevel(o) == o.context = None

HalsteadScalarsConsistent(m) ==
    /\ m.h1 <= m.n1
    /\ m.h2 <= m.n2
    /\ m.vocabulary = m.h1 + m.h2
    /\ m.length = m.n1 + m.n2

LnMilliTable ==
    <<0, 693, 1099, 1386, 1609, 1792, 1946, 2079, 2197, 2303, 2398, 2485, 2565, 2639, 2708, 2773, 2833, 2890, 2944, 2996, 3045, 3091, 3135, 3178>>

LnLog2MilliTable ==
    <<0, 0, 461, 693, 842, 950, 1032, 1099, 1154, 1201, 1241, 1277, 1308, 1337, 1363, 1386, 1408, 1428, 1446, 1464, 1480, 1495, 1509, 1523>>

SinSqrtMilliTable ==
    <<<<0, 0, 0, 0, 0, 0>>,
      <<877, 994, 931, 860, 800, 749>>,
      <<210, 877, 993, 994, 966, 931>>,
      <<-433, 568, 877, 975, 999, 994>>,
      <<-843, 210, 681, 877, 960, 993>>>>

ln_milli(n) == LnMilliTable[n]

\* A Halstead volume length * log2(vocabulary), kept as its two factors
VolumeOf(length, vocabulary) == [length |-> length, vocabulary |-> vocabulary]
volume_is_positive(v) == v.length > 0 /\ v.vocabulary > 1
ln_volume_milli(v) == LnMilliTable[v.length] + LnLog2MilliTable[v.vocabulary]

\* comment_lines / sloc * 100, kept as the two counts
PercentOf(part, whole) == [part |-> part, whole |-> whole]
sin_sqrt_milli(comments_percent) ==
    IF comments_percent.whole = 0 THEN 0
    ELSE SinSqrtMilliTable[comments_percent.part + 1][comments_percent.whole]

clamp(x, lo, hi) == IF x < lo THEN lo ELSE IF x > hi THEN hi ELSE x

\* mi_compute, in thousandths
mi_compute(halstead_volume, complexity, lloc, comments_percent) ==
    IF ~volume_is_positive(halstead_volume) \/ lloc = 0 THEN 100000
    ELSE LET sloc_scale == ln_milli(lloc)
             volume_scale == ln_volume_milli(halstead_volume)
             nn_mi == 171000
                      - (52 * volume_scale) \div 10
                      - 230 * complexity
                      - (162 * sloc_scale) \div 10
                      + 50 * sin_sqrt_milli(comments_percent)
         IN  clamp((nn_mi * 100) \div 171, 0, 100000)

mi_rank(score) == IF score > 19000 THEN "A" ELSE IF score > 9000 THEN "B" ELSE "C"

\* str::trim
RECURSIVE trim_end(_)
trim_end(text) ==
    IF text # <<>> /\ text[Len(text)] = Space
        THEN trim_end(SubSeq(text, 1, Len(text) - 1)) ELSE text
trim(text) == trim_end(trim_start(text))

TripleOf(quote) == <<quote, quote, quote>>
contains(text, pattern) ==
    \E at \in 1..(Len(text) - Len(pattern) + 1) :
        SubSeq(text, at, at + Len(pattern) - 1) = pattern

\* the body of the loop of calculate_raw_metrics for one line; multiline_quote
\* is None outside a multi-line string
calculate_raw_metrics_line(state, line) ==
    LET trimmed == trim(line)
        metrics == state.metrics
        quote == IF starts_with(trimmed, TripleOf(DQuote)) THEN TripleOf(DQuote)
                 ELSE TripleOf("'")
    IN  IF trimmed = EmptyStr THEN state
        ELSE IF state.multiline_quote # None
            THEN [metrics |-> [metrics EXCEPT !.multi = @ + 1],
                  multiline_quote |->
                      IF contains(trimmed, state.multiline_quote[1]) THEN None
                      ELSE state.multiline_quote]
        ELSE IF starts_with(trimmed, TripleOf(DQuote)) \/ starts_with(trimmed, TripleOf("'"))
            THEN [metrics |-> [metrics EXCEPT !.multi = @ + 1],
                  multiline_quote |->
                      IF Len(trimmed) > 3 /\ contains(SubSeq(trimmed, 4, Len(trimmed)), quote)
                          THEN None ELSE Some(quote)]
        ELSE IF Head(trimmed) = Hash
            THEN [state EXCEPT !.metrics.comments = @ + 1]
        ELSE [state EXCEPT !.metrics.sloc = @ + 1, !.metrics.lloc = @ + 1]

RECURSIVE calculate_raw_metrics_from(_, _)
calculate_raw_metrics_from(state, lines) ==
    IF lines = <<>> THEN state.metrics
    ELSE calculate_raw_metrics_from(calculate_raw_metrics_line(state, Head(lines)),
                                    Tail(lines))

calculate_raw_metrics(lines) ==
    calculate_raw_metrics_from(
        [metrics |-> [lloc |-> 0, sloc |-> 0, comments |-> 0, multi |-> 0],
         multiline_quote |-> None],
        lines)

\* ComplexityVisitorInner: the branches of a statement list at any depth
comprehension_branches(generators) ==
    SumInts([i \in 1..Len(generators) |-> 1 + Len(generators[i].ifs)])

stmt_branches(stmt) ==
    IF stmt.kind = "If"
        THEN 1 + Len(SelectSeq(stmt.elif_else_clauses, LAMBDA c : c.test # None))
    ELSE IF stmt.kind \in {"For", "While"} THEN 1
    ELSE IF stmt.kind = "Try" THEN Len(stmt.handlers)
    ELSE 0

expr_branches(expr) ==
    IF expr.kind = "BoolOp" THEN Len(expr.values) - 1
    ELSE IF expr.kind = "If" THEN 1
    ELSE IF expr.kind \in CompKinds THEN comprehension_branches(expr.generators)
    ELSE 0

RECURSIVE ComplexityVisitorInner_visit_stmt(_, _)
RECURSIVE ComplexityVisitorInner_visit_body(_, _)
RECURSIVE ComplexityVisitorInner_visit_bodies(_, _)
RECURSIVE ComplexityVisitorInner_visit_expr(_, _)
RECURSIVE ComplexityVisitorInner_visit_exprs(_, _)
ComplexityVisitorInner_visit_expr(complexity, expr) ==
    ComplexityVisitorInner_visit_exprs(
        complexity + expr_branches(expr),
        ExprChildren(expr)
        \o (IF expr.kind \in CompKinds
                THEN Flatten([i \in 1..Len(expr.generators) |->
                                 ComprehensionChildren(expr.generators[i])])
                ELSE <<>>))
ComplexityVisitorInner_visit_exprs(complexity, exprs) ==
    IF exprs = <<>> THEN complexity
    ELSE ComplexityVisitorInner_visit_exprs(
             ComplexityVisitorInner_visit_expr(complexity, Head(exprs)), Tail(exprs))
ComplexityVisitorInner_visit_stmt(complexity, stmt) ==
    ComplexityVisitorInner_visit_bodies(
        ComplexityVisitorInner_visit_exprs(complexity + stmt_branches(stmt), StmtExprs(stmt)),
        SubBodies(stmt))
ComplexityVisitorInner_visit_body(complexity, body) ==
    IF body = <<>> THEN complexity
    ELSE ComplexityVisitorInner_visit_body(
             ComplexityVisitorInner_visit_stmt(complexity, Head(body)), Tail(body))
ComplexityVisitorInner_visit_bodies(complexity, bodies) ==
    IF bodies = <<>> THEN complexity
    ELSE ComplexityVisitorInner_visit_bodies(
             ComplexityVisitorInner_visit_body(complexity, Head(bodies)), Tail(bodies))

visit_function_body(body) == 1 + ComplexityVisitorInner_visit_body(0, body)

visit_class_body(body) ==
    1 + SumInts([i \in 1..Len(body) |->
                    IF body[i].kind = "FunctionDef" THEN visit_function_body(body[i].body)
                    ELSE ComplexityVisitorInner_visit_stmt(0, body[i])])

\* the ComplexityVisitor of maintainability.rs
MIComplexityVisitor_new ==
    [complexity |-> 0, functions_complexity_sum |-> 0, function_count |-> 0,
     classes_complexity_sum |-> 0, class_count |-> 0]

total_complexity(v) ==
    1 + v.complexity
    + saturating_sub(v.functions_complexity_sum, v.function_count)
    + saturating_sub(v.classes_complexity_sum, v.class_count)

RECURSIVE MIComplexityVisitor_visit_stmt(_, _)
RECURSIVE MIComplexityVisitor_visit_body(_, _)
RECURSIVE MIComplexityVisitor_visit_bodies(_, _)
RECURSIVE MIComplexityVisitor_visit_expr(_, _)
RECURSIVE MIComplexityVisitor_visit_exprs(_, _)
MIComplexityVisitor_visit_expr(v, expr) ==
    MIComplexityVisitor_visit_exprs(
        [v EXCEPT !.complexity = @ + expr_branches(expr)],
        ExprChildren(expr)
        \o (IF expr.kind \in CompKinds
                THEN Flatten([i \in 1..Len(expr.generators) |->
                                 ComprehensionChildren(expr.generators[i])])
                ELSE <<>>))
MIComplexityVisitor_visit_exprs(v, exprs) ==
    IF exprs = <<>> \/ ~Evaluated(v) THEN v
    ELSE MIComplexityVisitor_visit_exprs(MIComplexityVisitor_visit_expr(v, Head(exprs)), Tail(exprs))
MIComplexityVisitor_visit_stmt(v, stmt) ==
    IF stmt.kind = "FunctionDef"
        THEN [v EXCEPT !.functions_complexity_sum = @ + visit_function_body(stmt.body),
                       !.function_count = @ + 1]
    ELSE IF stmt.kind = "ClassDef"
        THEN [v EXCEPT !.classes_complexity_sum = @ + visit_class_body(stmt.body),
                       !.class_count = @ + 1]
    ELSE MIComplexityVisitor_visit_bodies(
             MIComplexityVisitor_visit_exprs(
                 [v EXCEPT !.complexity = @ + stmt_branches(stmt)], StmtExprs(stmt)),
             SubBodies(stmt))
MIComplexityVisitor_visit_body(v, body) ==
    IF body = <<>> \/ ~Evaluated(v) THEN v
    ELSE MIComplexityVisitor_visit_body(MIComplexityVisitor_visit_stmt(v, Head(body)), Tail(body))
MIComplexityVisitor_visit_bodies(v, bodies) ==
    IF bodies = <<>> \/ ~Evaluated(v) THEN v
    ELSE MIComplexityVisitor_visit_bodies(MIComplexityVisitor_visit_body(v, Head(bodies)), Tail(bodies))

\* the HalsteadVisitor of maintainability.rs: the operands of a boolean
\* operator are taken by expr_to_operand, and each statement of a function body
\* is counted by a visitor of its own
RECURSIVE MIHalsteadVisitor_visit_stmt(_, _)
RECURSIVE MIHalsteadVisitor_visit_body(_, _)
RECURSIVE MIHalsteadVisitor_visit_bodies(_, _)
RECURSIVE MIHalsteadVisitor_visit_expr(_, _)
RECURSIVE MIHalsteadVisitor_visit_exprs(_, _)
RECURSIVE MIHalsteadVisitor_visit_function(_, _, _)
MIHalsteadVisitor_visit_expr(v, expr) ==
    LET counted ==
            IF expr.kind = "BinOp"
                THEN HalsteadVisitor_add_operands(
                         HalsteadVisitor_add_operator(v, binop_name(expr.op)),
                         <<expr_to_operand(expr.left), expr_to_operand(expr.right)>>)
            ELSE IF expr.kind = "UnaryOp"
                THEN HalsteadVisitor_add_operand(
                         HalsteadVisitor_add_operator(v, unaryop_name(expr.op)),
                         expr_to_operand(expr.operand))
            ELSE IF expr.kind = "BoolOp"
                THEN HalsteadVisitor_add_operands(
                         HalsteadVisitor_add_operator(v, boolop_name(expr.op)),
                         [i \in 1..Len(expr.values) |-> expr_to_operand(expr.values[i])])
            ELSE IF expr.kind = "Compare"
                THEN HalsteadVisitor_add_operands(
                         HalsteadVisitor_add_operators(v,
                             [i \in 1..Len(expr.ops) |-> cmpop_name(expr.ops[i])]),
                         <<expr_to_operand(expr.left)>>
                             \o [i \in 1..Len(expr.comparators) |->
                                    expr_to_operand(expr.comparators[i])])
            ELSE v
    IN  MIHalsteadVisitor_visit_exprs(
            counted,
            ExprChildren(expr)
            \o (IF expr.kind \in CompKinds
                    THEN Flatten([i \in 1..Len(expr.generators) |->
                                     ComprehensionChildren(expr.generators[i])])
                    ELSE <<>>))
MIHalsteadVisitor_visit_exprs(v, exprs) ==
    IF exprs = <<>> \/ ~Evaluated(v) THEN v
    ELSE MIHalsteadVisitor_visit_exprs(MIHalsteadVisitor_visit_expr(v, Head(exprs)), Tail(exprs))
\* the loop over the statements of a function body
MIHalsteadVisitor_visit_function(v, func_name, body) ==
    IF body = <<>> THEN v
    ELSE LET child_visitor ==
                 MIHalsteadVisitor_visit_stmt(HalsteadVisitor_new(Some(func_name)), Head(body))
         IN  MIHalsteadVisitor_visit_function(
                 [v EXCEPT !.metrics = HalsteadMetrics_merge(@, child_visitor.metrics)],
                 func_name, Tail(body))
MIHalsteadVisitor_visit_stmt(v, stmt) ==
    IF stmt.kind = "FunctionDef"
        THEN MIHalsteadVisitor_visit_function(v, stmt.name, stmt.body)
    ELSE LET counted ==
                 IF stmt.kind = "AugAssign"
                     THEN HalsteadVisitor_add_operands(
                              HalsteadVisitor_add_operator(v, binop_name(stmt.op)),
                              <<expr_to_operand(stmt.target), expr_to_operand(stmt.value)>>)
                 ELSE v
         IN  MIHalsteadVisitor_visit_bodies(
                 MIHalsteadVisitor_visit_exprs(counted, StmtExprs(stmt)), SubBodies(stmt))
MIHalsteadVisitor_visit_body(v, body) ==
    IF body = <<>> \/ ~Evaluated(v) THEN v
    ELSE MIHalsteadVisitor_visit_body(MIHalsteadVisitor_visit_stmt(v, Head(body)), Tail(body))
MIHalsteadVisitor_visit_bodies(v, bodies) ==
    IF bodies = <<>> \/ ~Evaluated(v) THEN v
    ELSE MIHalsteadVisitor_visit_bodies(MIHalsteadVisitor_visit_body(v, Head(bodies)), Tail(bodies))

HalsteadMetrics_volume(m) ==
    VolumeOf(HalsteadMetrics_length(m), HalsteadMetrics_vocabulary(m))

\* The parser on a source text: the statement list, or an error
parse_module(source) == IF source.parses THEN Ok(source.suite) ELSE Err

\* analyze_source of maintainability.rs
maintainability_analyze_source(source, multi) ==
    LET parsed == parse_module(source)
        raw == calculate_raw_metrics(LineTable(source.items))
        comment_lines == raw.comments + (IF multi THEN raw.multi ELSE 0)
        comments_percent == IF raw.sloc > 0 THEN PercentOf(comment_lines, raw.sloc)
                            ELSE PercentOf(0, 0)
        halstead == MIHalsteadVisitor_visit_body(HalsteadVisitor_new(None), parsed.value)
        volume == HalsteadMetrics_volume(halstead.metrics)
        complexity == MIComplexityVisitor_visit_body(MIComplexityVisitor_new, parsed.value)
        mi == mi_compute(volume, total_complexity(complexity), raw.lloc, comments_percent)
    IN  IF ~parsed.ok THEN Err
        ELSE Ok([mi |-> mi, rank |-> mi_rank(mi)])

analyze_source_mi(source, multi) ==
    LET result == maintainability_analyze_source(source, multi)
    IN  IF result.ok THEN result.value ELSE [mi |-> 0, rank |-> "C"]

\* ---------------------------------------------------------------------------
\* Per-file pipeline (backend parallel.rs, analyze_file)
\* ---------------------------------------------------------------------------

\* A source text: its lines with the tokens the lexer returns for them, and
\* what the parser makes of it
SourceOf(items, suite) == [items |-> items, suite |-> suite, parses |-> TRUE]
UnparsableSource(items) == [items |-> items, suite |-> <<>>, parses |-> FALSE]

Indent4 == <<Space, Space, Space, Space>>
LineAdd == <<"a", Space, "+", Space, "b">>
TokensAdd == <<"Name", "Plus", "Name", "Newline">>
LineDef(name) == <<"d", "e", "f", Space>> \o name \o <<"(", ")", ":">>
TokensDef == <<"Def", "Name", "Lpar", "Rpar", "Colon", "Newline">>
ItemFunctionAdd(name) ==
    Item(<<LineDef(name), Indent4 \o LineAdd>>,
         TokensDef \o <<"Indent">> \o TokensAdd \o <<"Dedent">>)

\* a + b
FileExpr == SourceOf(<<Item(<<LineAdd>>, TokensAdd)>>, <<StmtAdd>>)
\* def f():
\*     a + b
FileOneFunction == SourceOf(<<ItemFunctionAdd(NameF)>>, <<HalsteadFunctionF>>)
\* the same, followed by the same function under the name g
FileTwoFunctions ==
    SourceOf(<<ItemFunctionAdd(NameF), ItemFunctionAdd(NameG)>>,
             <<HalsteadFunctionF, HalsteadFunctionG>>)
\* if a and b: c
FileIfOneLine ==
    SourceOf(<<Item(<<<<"i", "f", Space, "a", Space, "a", "n", "d", Space, "b", ":",
                       Space, "c">>>>,
                    <<"If", "Name", "And", "Name", "Colon", "Name", "Newline">>)>>,
             <<If(BoolOpOf("And", <<OperandA, OperandB>>), <<ExprStmt(OperandC)>>, <<>>)>>)
\* # c
\* a + b
FileCommented == SourceOf(<<CommentItem, Item(<<LineAdd>>, TokensAdd)>>, <<StmtAdd>>)
\* """d"""
\* a and b and c
FileDocstring ==
    SourceOf(<<DocItem,
               Item(<<<<"a", Space, "a", "n", "d", Space, "b", Space, "a", "n", "d",
                       Space, "c">>>>,
                    <<"Name", "And", "Name", "And", "Name", "Newline">>)>>,
             <<ExprStmt([kind |-> "StringLiteral"]), StmtBoolOp3>>)
\* def f():
\*     if a < b:
\*         a += 1
FileFunctionIf ==
    SourceOf(<<Item(<<LineDef(NameF),
                      Indent4 \o <<"i", "f", Space, "a", Space, "<", Space, "b", ":">>,
                      Indent4 \o Indent4 \o <<"a", Space, "+", "=", Space, "1">>>>,
                    TokensDef
                    \o <<"Indent", "If", "Name", "Less", "Name", "Colon", "Newline">>
                    \o <<"Indent", "Name", "PlusEqual", "Int", "Newline", "Dedent", "Dedent">>)>>,
             <<FunctionDef(NameF,
                   <<If(Compare(OperandA, <<"Lt">>, <<OperandB>>),
                        <<AugAssign(OperandA, "Add", Number("1"))>>, <<>>)>>)>>)
\* class C:
\*     def m(self):
\*         a < b
FileClass ==
    SourceOf(<<Item(<<<<"c", "l", "a", "s", "s", Space, "C", ":">>,
                      Indent4 \o <<"d", "e", "f", Space, "m", "(", "s", "e", "l", "f", ")", ":">>,
                      Indent4 \o Indent4 \o <<"a", Space, "<", Space, "b">>>>,
                    <<"Class", "Name", "Colon", "Newline", "Indent", "Def", "Name", "Lpar",
                      "Name", "Rpar", "Colon", "Newline", "Indent", "Name", "Less", "Name",
                      "Newline", "Dedent", "Dedent">>)>>,
             <<HalsteadClassC>>)
\* a +
FileUnparsable == UnparsableSource(<<Item(<<<<"a", Space, "+">>>>, <<"Name", "Plus", "Newline">>)>>)
FileEmpty == SourceOf(<<>>, <<>>)

FileSources ==
    {FileExpr, FileOneFunction, FileTwoFunctions, FileIfOneLine, FileCommented,
     FileDocstring, FileFunctionIf, FileClass, FileUnparsable, FileEmpty}

\* analyze_source of the cyclomatic and the Halstead module: each parses the
\* text it is given
cyclomatic_analyze_source_full(source) ==
    LET parsed == parse_module(source)
    IN  IF parsed.ok THEN Ok(cyclomatic_analyze_source(parsed.value)) ELSE Err

halstead_analyze_source_full(source) ==
    LET parsed == parse_module(source)
    IN  IF parsed.ok THEN Ok(halstead_analyze_source(parsed.value)) ELSE Err

convert_cyclomatic(result) ==
    [functions |-> result.functions, classes |-> result.classes,
     total_complexity |-> cyclomatic_total_of(result)]

HalsteadTotalResult(m) == [scalars |-> HalsteadScalars(m), volume |-> HalsteadMetrics_volume(m)]

convert_halstead(result) ==
    [functions |-> result.functions, total |-> HalsteadTotalResult(result.metrics)]

\* analyze_file. parse_calls is the number of calls of parse_module the
\* selected analysers make on the text, parse_errors the number of them that
\* return an error.
analyze_file(source, include_raw, include_cyclomatic, include_halstead, include_maintainability, multi) ==
    LET cc == cyclomatic_analyze_source_full(source)
        hal == halstead_analyze_source_full(source)
        parse_calls == (IF include_cyclomatic THEN 1 ELSE 0)
                       + (IF include_halstead THEN 1 ELSE 0)
                       + (IF include_maintainability THEN 1 ELSE 0)
    IN  [raw |-> IF include_raw THEN Some(raw_analyze_source(source.items)) ELSE None,
         cyclomatic |->
             IF ~include_cyclomatic THEN None
             ELSE IF cc.ok THEN Some(convert_cyclomatic(cc.value))
             ELSE Some([functions |-> <<>>, classes |-> <<>>, total_complexity |-> 0]),
         halstead |->
             IF ~include_halstead THEN None
             ELSE IF hal.ok THEN Some(convert_halstead(hal.value))
             ELSE Some([functions |-> <<>>,
                        total |-> HalsteadTotalResult(HalsteadMetrics_default)]),
         maintainability |->
             IF include_maintainability THEN Some(analyze_source_mi(source, multi)) ELSE None,
         parse_calls |-> parse_calls,
         parse_errors |-> IF parse_module(source).ok THEN 0 ELSE parse_calls]

FileAnalyze ==
    AnalyserReturn("analyze_file",
        analyze_file(last.arg.source, last.arg.include_raw, last.arg.include_cyclomatic,
                     last.arg.include_halstead, last.arg.include_maintainability,
                     last.arg.multi))

InitFile ==
    \E source \in FileSources, raw, cc, hal, mi, multi \in BOOLEAN :
        AnalyserInit("analyze_file",
            [source |-> source, include_raw |-> raw, include_cyclomatic |-> cc,
             include_halstead |-> hal, include_maintainability |-> mi, multi |-> multi])

SpecFile == InitFile /\ [][FileAnalyze]_vars

AllFourOperators ==
    /\ last.arg.include_raw /\ last.arg.include_cyclomatic
    /\ last.arg.include_halstead /\ last.arg.include_maintainability

\* the index computed from the values the file's row carries
MIOfRow(ret, multi) ==
    LET raw == ret.raw[1]
    IN  mi_compute(ret.halstead[1].total.volume,
                   ret.cyclomatic[1].total_complexity,
                   raw.lloc,
                   IF raw.sloc = 0 THEN PercentOf(0, 0)
                   ELSE PercentOf(raw.single_comments + (IF multi THEN raw.multi ELSE 0),
                                  raw.sloc))

\* C25: for every file analysed with all four operators, mi is the index
\* formula applied to the values of the same result: V the Halstead volume, CC
\* the total complexity (the sum of the function and class complexities), LLOC
\* the raw lloc, and CP = (single_comments + multi when multi-line strings count
\* as comments) / sloc * 100, 0 when sloc = 0.
C25_MIFromRowValues ==
    (Returned("analyze_file") /\ AllFourOperators) =>
        last.ret.maintainability[1].mi = MIOfRow(last.ret, last.arg.multi)

\* C26: the pipeline parses a file at most once whatever operators are
\* selected, and a parse failure is detected exactly once.
C26_ParseOnce ==
    Returned("analyze_file") =>
        /\ last.ret.parse_calls <= 1
        /\ (~last.arg.source.parses /\ last.ret.parse_calls > 0) => last.ret.parse_errors = 1

\* ---------------------------------------------------------------------------
\* Threads, per-file tasks and the two mutexes of one WilyIndex
\* (storage.rs, analyze_revision phase 1 and phase 2, __exit__, __getitem__)
\* ---------------------------------------------------------------------------
\* Here the variables hold: disk, the revision checked out in the working
\* tree; idx, the rows in the builder and in state.new_rows; active, the
\* holder of each mutex; calls, the analyze_revision calls started; sessions,
\* the checkouts done; emitted, the set of the reads of the working tree by
\* per-file tasks; pc, each thread's position; inflight, the per-file tasks not
\* yet finished. Threads are interleaved freely, which covers an interpreter
\* without a global lock as well as one with it.

MaxParCalls == 2
MaxCheckouts == 1

Threads == {"main", "other"}
ParPaths == <<"a", "b">>
\* the working tree holds file a in every revision; file b may be missing
MayBeMissing == {"b"}
Free == "free"

Idle == [at |-> "idle", call |-> 0, tree |-> 0, results |-> {}, done |-> 0]

InitPar ==
    /\ disk = 1
    /\ idx = [builder |-> <<>>, new_rows |-> <<>>]
    /\ active = [builder |-> Free, state |-> Free]
    /\ calls = 0
    /\ sessions = 0
    /\ last = NoOp
    /\ emitted = {}
    /\ pc = [t \in Threads |-> Idle]
    /\ inflight = {}

\* the caller of the main thread checks out the next revision between its calls
Checkout ==
    /\ pc["main"].at = "idle"
    /\ sessions < MaxCheckouts
    /\ disk' = disk + 1
    /\ sessions' = sessions + 1
    /\ UNCHANGED <<idx, active, calls, last, emitted, pc, inflight>>

\* analyze_revision up to py.detach: par_iter hands one task per path to the pool
CallAnalyzeRevision(t) ==
    /\ pc[t].at = "idle"
    /\ calls < MaxParCalls
    /\ calls' = calls + 1
    /\ pc' = [pc EXCEPT ![t] = [at |-> "phase1", call |-> calls + 1, tree |-> disk,
                                 results |-> {}, done |-> 0]]
    /\ inflight' = inflight \cup {[thread |-> t, call |-> calls + 1, path |-> ParPaths[i]] :
                                     i \in 1..Len(ParPaths)}
    /\ UNCHANGED <<disk, idx, active, sessions, last, emitted>>

\* One per-file task: it reads the file from the working tree and analyses the
\* text; an unreadable file gives no result. Its result goes to the collection
\* of its own call, when that call is still collecting.
TaskRun ==
    \E task \in inflight, readable \in BOOLEAN :
        /\ (~readable) => task.path \in MayBeMissing
        /\ inflight' = inflight \ {task}
        /\ emitted' = emitted \cup {[thread |-> task.thread, call |-> task.call,
                                        tree |-> disk]}
        /\ pc' = IF pc[task.thread].call = task.call /\ pc[task.thread].at = "phase1"
                      /\ readable
                    THEN [pc EXCEPT ![task.thread].results = @ \cup {task.path}]
                    ELSE pc
        /\ UNCHANGED <<disk, idx, active, calls, sessions, last>>

\* the mutant of collect_done: collect() returns without waiting for the tasks
collect_without_join(t) == TRUE

\* collect() of the parallel iterator returns when every task of the call is done
collect_done(t) == \A task \in inflight : task.thread # t

Collect(t) ==
    /\ pc[t].at = "phase1"
    /\ collect_done(t)
    /\ pc' = [pc EXCEPT ![t].at = "lock_builder"]
    /\ UNCHANGED <<disk, idx, active, calls, sessions, last, emitted, inflight>>

\* self.builder.lock()
LockBuilder(t) ==
    /\ pc[t].at = "lock_builder"
    /\ active.builder = Free
    /\ active' = [active EXCEPT !.builder = t]
    /\ pc' = [pc EXCEPT ![t].at = "lock_state"]
    /\ UNCHANGED <<disk, idx, calls, sessions, last, emitted, inflight>>

\* self.state.lock()
LockState(t) ==
    /\ pc[t].at = "lock_state"
    /\ active.state = Free
    /\ active' = [active EXCEPT !.state = t]
    /\ pc' = [pc EXCEPT ![t].at = "emit"]
    /\ UNCHANGED <<disk, idx, calls, sessions, last, emitted, inflight>>

\* the results of the call, in the order of the paths
ResultsInOrder(t) == SelectSeq(ParPaths, LAMBDA p : p \in pc[t].results)

\* phase 2 adds one row to the builder and pushes it to state.new_rows
EmitRow(t) ==
    /\ pc[t].at = "emit"
    /\ pc[t].done < Len(ResultsInOrder(t))
    /\ LET row == [thread |-> t, call |-> pc[t].call,
                   path |-> ResultsInOrder(t)[pc[t].done + 1], holding |-> active]
       IN  idx' = [builder |-> Append(idx.builder, row),
                   new_rows |-> Append(idx.new_rows, row)]
    /\ pc' = [pc EXCEPT ![t].done = @ + 1]
    /\ UNCHANGED <<disk, active, calls, sessions, last, emitted, inflight>>

\* analyze_revision returns: the two guards are dropped
ReturnRevision(t) ==
    /\ pc[t].at = "emit"
    /\ pc[t].done = Len(ResultsInOrder(t))
    /\ active' = [active EXCEPT !.builder = IF @ = t THEN Free ELSE @,
                                !.state = IF @ = t THEN Free ELSE @]
    /\ pc' = [pc EXCEPT ![t] = Idle]
    /\ UNCHANGED <<disk, idx, calls, sessions, last, emitted, inflight>>

\* __exit__ takes the builder mutex only, and writes the rows of the builder out
ExitLock(t) ==
    /\ pc[t].at = "idle"
    /\ active.builder = Free
    /\ active' = [active EXCEPT !.builder = t]
    /\ pc' = [pc EXCEPT ![t].at = "exit"]
    /\ UNCHANGED <<disk, idx, calls, sessions, last, emitted, inflight>>

ExitReturn(t) ==
    /\ pc[t].at = "exit"
    /\ idx' = [idx EXCEPT !.builder = <<>>]
    /\ active' = [active EXCEPT !.builder = Free]
    /\ pc' = [pc EXCEPT ![t] = Idle]
    /\ UNCHANGED <<disk, calls, sessions, last, emitted, inflight>>

\* __getitem__, __iter__, __len__ and __enter__ take the state mutex only
GetItemLock(t) ==
    /\ pc[t].at = "idle"
    /\ active.state = Free
    /\ active' = [active EXCEPT !.state = t]
    /\ pc' = [pc EXCEPT ![t].at = "getitem"]
    /\ UNCHANGED <<disk, idx, calls, sessions, last, emitted, inflight>>

GetItemReturn(t) ==
    /\ pc[t].at = "getitem"
    /\ active' = [active EXCEPT !.state = Free]
    /\ pc' = [pc EXCEPT ![t] = Idle]
    /\ UNCHANGED <<disk, idx, calls, sessions, last, emitted, inflight>>

NextPar ==
    \/ Checkout
    \/ TaskRun
    \/ \E t \in Threads : CallAnalyzeRevision(t)
    \/ \E t \in Threads : Collect(t)
    \/ \E t \in Threads : LockBuilder(t)
    \/ \E t \in Threads : LockState(t)
    \/ \E t \in Threads : EmitRow(t)
    \/ \E t \in Threads : ReturnRevision(t)
    \/ \E t \in Threads : ExitLock(t)
    \/ \E t \in Threads : ExitReturn(t)
    \/ \E t \in Threads : GetItemLock(t)
    \/ \E t \in Threads : GetItemReturn(t)

SpecPar == InitPar /\ [][NextPar]_vars

\* the mutex a thread is waiting for, if any
WaitsFor(t) ==
    IF pc[t].at = "lock_builder" THEN "builder"
    ELSE IF pc[t].at = "lock_state" THEN "state"
    ELSE "none"

Contiguous(rows) ==
    \A i, k \in 1..Len(rows) :
        (i < k /\ rows[i].call = rows[k].call) =>
            \A j \in i..k : rows[j].call = rows[i].call

\* C30: the parallelism of one revision is self-contained. Outside the
\* parallel phase of a call none of its per-file tasks is running, so every
\* read of the working tree by a task of the thread that checks revisions out
\* sees the revision checked out when its call began. A task changes neither
\* the rows nor the mutexes; every row was added by a thread holding the
\* builder and the state mutex; the builder mutex is never awaited by a thread
\* holding the state mutex and no two threads wait for each other; and the
\* rows of one call are contiguous in the buffer.
C30_ParallelSelfContained ==
    /\ \A t \in Threads :
          pc[t].at # "phase1" => \A task \in inflight : task.thread # t
    /\ \A task \in inflight : pc[task.thread].call = task.call
    /\ \A read, other \in emitted :
          (read.thread = "main" /\ other.call = read.call) => other.tree = read.tree
    /\ \A t \in Threads :
          pc[t].at \in {"phase1", "idle", "lock_builder"} =>
              active.builder # t /\ active.state # t
    /\ \A i \in 1..Len(idx.new_rows) :
          /\ idx.new_rows[i].holding.builder = idx.new_rows[i].thread
          /\ idx.new_rows[i].holding.state = idx.new_rows[i].thread
    /\ \A t \in Threads : WaitsFor(t) = "builder" => active.state # t
    /\ ~\E t, u \in Threads :
          /\ t # u
          /\ WaitsFor(t) # "none" /\ active[WaitsFor(t)] = u
          /\ WaitsFor(u) # "none" /\ active[WaitsFor(u)] = t
    /\ Contiguous(idx.new_rows)
    /\ Contiguous(idx.builder)

\* both threads have analysed a revision and added its rows, and a checkout
\* has taken place between two reads of the working tree
C30_Witness ==
    /\ sessions > 0
    /\ Len(idx.new_rows) >= 3
    /\ \E i, j \in 1..Len(idx.new_rows) :
          idx.new_rows[i].thread = "main" /\ idx.new_rows[j].thread = "other"
    /\ \E read, other \in emitted : read.thread = "main" /\ other.tree # read.tree
    /\ \A t \in Threads : pc[t].at = "idle"
====
